---------------------------- MODULE Spec2Model ----------------------------
(***************************************************************************)
(* Real-time quote distribution path of apps/backend/src/quotes.ts:        *)
(* the QuoteStore (last tick per symbol), the QuotePublisher (subscription *)
(* registry, pending batch, flush) and the transports it sends to.         *)
(*                                                                         *)
(* Node runs every handler to completion on one thread, so each method     *)
(* call and each timer callback is one atomic action.                      *)
(***************************************************************************)
EXTENDS Integers, Sequences, FiniteSets, TLC

(***************************************************************************)
(* Bounds of the model.                                                    *)
(***************************************************************************)
\* Publish calls between two firings of the flush timer.
MaxPubs == 2
\* Length of a symbols array handed to addSubscriber / updateSubscription.
MaxSyms == 2
\* Length of a symbols array handed to snapshot.
MaxReq == 2

\* The sockets (WebSocket objects) of the model.
Conns == {"ws1", "ws2"}
\* Symbols that are published and subscribed to in the fan-out
\* specification.
Symbols == {"AAPL", "MSFT"}
\* Symbols of the store specification.  "__proto__" is a string like any
\* other for a Map or a Set, and the one key that is special for the plain
\* object snapshot builds.
SnapSymbols == {"AAPL", "MSFT", "__proto__"}
\* (price, ts) pairs handed to publish: two prices, and a later call with an
\* older timestamp.
PublishInputs == {<<100, 2>>, <<101, 1>>}

VARIABLES
    symbolToQuote,  \* QuoteStore.symbolToQuote : Map<string, QuoteTick>
    subscribers,    \* QuotePublisher.subscribers : Map<WebSocket, Set<string>>
    pending,        \* QuotePublisher.pending : Map<string, QuoteTick>
    readyState,     \* ws.readyState of every socket
    pubLog,         \* history: the publish calls since the flush timer last fired
    lastPublished,  \* history: symbol -> the tick of the last publish call for it
    last,           \* observation: the operation of the last step, its
                    \* arguments and what it returned or sent
    accepted,       \* the sockets the "connection" handler has run for
    ended,          \* history: socket -> its "close" / "error" events handled
    subscribedEver, \* history: the sockets a subscribe message was processed for
    timers,         \* the event loop: id -> closure of every active setInterval
    flushInterval,  \* QuotePublisher.flushInterval : a timer id, or NoTimer
    heartbeatInterval, \* QuotePublisher.heartbeatInterval : a timer id, or NoTimer
    genTimer,       \* let genTimer : a timer id, or NoTimer
    quotes,         \* useState: symbol -> the tick on display
    previousQuotes, \* useState: symbol -> the tick on display before it
    isConnected,    \* useState
    connectionError, \* useState: a message, or NoError
    pendingUpdates, \* useRef: symbol -> the tick received and not committed
    frameCounter,   \* useRef
    animationFrameId, \* useRef: a requestAnimationFrame id, or NoTimer
    hasPendingUpdates, \* useRef
    wsRef,          \* useRef: a client socket, or NoSocket
    reconnectTimeoutRef, \* useRef: a setTimeout id, or NoTimer
    reconnectAttempts, \* useRef
    sockets,        \* the browser: client socket -> its state, until its
                    \* close event was dispatched
    socketsCreated, \* the browser: how many times new WebSocket ran
    windowTimers,   \* the browser: id -> closure of every pending
                    \* setTimeout and active setInterval of the page
    frameCallbacks, \* the browser: the pending requestAnimationFrame ids
    updateQueue,    \* React: updater functions queued for the next render
    unmounted,      \* the cleanup of the effect has run
    failedSinceOpen, \* history: unclean closes since the last open event
    running,        \* the event loop: the pass over the registry in progress
                    \* (of flush or of pingAll), or none
    raised          \* the event loop: the socket events that have occurred
                    \* and whose handlers have not run yet

\* The state of the gateway (attachQuoteWSServer).
gatewayVars == <<accepted, ended, subscribedEver>>

\* The state of the timers and of the generator.
timerVars == <<timers, flushInterval, heartbeatInterval, genTimer>>

\* The state of the dashboard component (QuotesDashboard) and of the page
\* it runs in.
clientVars == <<quotes, previousQuotes, isConnected, connectionError,
                pendingUpdates, frameCounter, animationFrameId, hasPendingUpdates,
                wsRef, reconnectTimeoutRef, reconnectAttempts, sockets,
                socketsCreated, windowTimers, frameCallbacks, updateQueue,
                unmounted, failedSinceOpen>>

\* The state of the event loop around a pass over the registry.
loopVars == <<running, raised>>

vars == <<symbolToQuote, subscribers, pending, readyState, pubLog, lastPublished, last,
          accepted, ended, subscribedEver,
          timers, flushInterval, heartbeatInterval, genTimer,
          quotes, previousQuotes, isConnected, connectionError, pendingUpdates,
          frameCounter, animationFrameId, hasPendingUpdates, wsRef,
          reconnectTimeoutRef, reconnectAttempts, sockets, socketsCreated,
          windowTimers, frameCallbacks, updateQueue, unmounted, failedSinceOpen,
          running, raised>>

(***************************************************************************)
(* Values.                                                                 *)
(***************************************************************************)
\* JavaScript null (a record, so that it compares with a tick).
NULL == [type |-> "null"]

\* type QuoteTick = { symbol, price, ts }
QuoteTick(symbol, price, ts) == [symbol |-> symbol, price |-> price, ts |-> ts]

\* null in a timer handle (flushInterval, heartbeatInterval, genTimer); the
\* timers have the ids 1, 2, ...
NoTimer == 0

\* null in wsRef; the client sockets have the ids 1, 2, ...
NoSocket == 0

\* null in connectionError
NoError == "(null)"

\* const timer = setTimeout(() => { connectWebSocket() }, 100): the handle
\* of the first timer the page sets.
timer == 1

\* new Map()
EmptyMap == [k \in {} |-> NULL]

\* Map.prototype.set
MapSet(m, k, v) == [x \in (DOMAIN m) \cup {k} |-> IF x = k THEN v ELSE m[x]]

\* Map.prototype.delete
MapDelete(m, k) == [x \in (DOMAIN m) \ {k} |-> m[x]]

\* Map.prototype.get, with undefined for a missing key rendered as NULL
\* (every caller only tests the result for truthiness or applies || to it).
MapGet(m, k) == IF k \in DOMAIN m THEN m[k] ELSE NULL

\* The arrays of length at most n over S.
SeqsUpTo(S, n) == UNION {[1..k -> S] : k \in 0..n}

\* The elements of an array.
Range(s) == {s[i] : i \in DOMAIN s}

(***************************************************************************)
(* QuoteStore.                                                             *)
(***************************************************************************)
\* upsert(symbol, price, ts): this.symbolToQuote.set(symbol, {symbol, price, ts})
upsert(store, symbol, price, ts) == MapSet(store, symbol, QuoteTick(symbol, price, ts))

\* const out = {}: a plain object, no own properties, prototype Object.prototype.
EmptyObject == [own |-> EmptyMap, proto |-> "Object.prototype"]

\* out[k] = v on a plain object.  Object.prototype carries the accessor
\* __proto__, so the assignment of that key calls the setter (which replaces
\* the prototype by v, an object or null) as long as the prototype chain
\* still reaches Object.prototype; any other assignment defines or
\* overwrites an own property.
ObjectAssign(obj, k, v) ==
    IF k = "__proto__" /\ obj.proto # "null"
    THEN [obj EXCEPT !.proto = IF v = NULL THEN "null" ELSE "QuoteTick"]
    ELSE [obj EXCEPT !.own = MapSet(obj.own, k, v)]

\* for (const s of symbols) out[s] = this.symbolToQuote.get(s) || null
RECURSIVE snapshotLoop(_, _, _)
snapshotLoop(store, symbols, out) ==
    IF symbols = <<>> THEN out
    ELSE snapshotLoop(store, Tail(symbols),
                      ObjectAssign(out, Head(symbols), MapGet(store, Head(symbols))))

\* snapshot(symbols): the record returned, as its own properties (what the
\* caller sees through res.json and Object.keys).
snapshot(store, symbols) == snapshotLoop(store, symbols, EmptyObject).own

(***************************************************************************)
(* QuotePublisher: the registry.                                           *)
(***************************************************************************)
\* new Set(symbols)
NewSet(symbols) == Range(symbols)

\* addSubscriber(ws, symbols): this.subscribers.set(ws, new Set(symbols))
addSubscriber(subs, ws, symbols) == MapSet(subs, ws, NewSet(symbols))

\* set.clear()
clear(set) == {}

\* for (const s of symbols) set.add(s)
RECURSIVE addAll(_, _)
addAll(set, symbols) ==
    IF symbols = <<>> THEN set
    ELSE addAll(set \cup {Head(symbols)}, Tail(symbols))

\* Mutant of updateSubscription: the set is not cleared (a merge).
updateSubscriptionMerges(subs, ws, symbols) ==
    LET set == IF ws \in DOMAIN subs THEN subs[ws] ELSE {}
    IN  MapSet(subs, ws, addAll(set, symbols))

\* updateSubscription(ws, symbols)
updateSubscription(subs, ws, symbols) ==
    LET set == IF ws \in DOMAIN subs THEN subs[ws] ELSE {}
    IN  MapSet(subs, ws, addAll(clear(set), symbols))

\* Mutant of removeSubscriber: the registry is cleared.
removeSubscriberClears(subs, ws) == EmptyMap

\* removeSubscriber(ws): this.subscribers.delete(ws)
removeSubscriber(subs, ws) == MapDelete(subs, ws)

\* Mutant of publishPending: an entry of the batch is not overwritten.
publishPendingKeepsFirst(pend, symbol, price, ts) ==
    IF symbol \in DOMAIN pend THEN pend
    ELSE MapSet(pend, symbol, QuoteTick(symbol, price, ts))

\* publish(symbol, price, ts), the pending half:
\* this.pending.set(symbol, {symbol, price, ts})
publishPending(pend, symbol, price, ts) ==
    MapSet(pend, symbol, QuoteTick(symbol, price, ts))

(***************************************************************************)
(* QuotePublisher: flush.                                                  *)
(***************************************************************************)
\* Mutant of flushReturnsEarly: the registry is not tested.
flushReturnsEarlyPendingOnly(pend, subs) == DOMAIN pend = {}

\* if (this.pending.size === 0 || this.subscribers.size === 0) return
flushReturnsEarly(pend, subs) == DOMAIN pend = {} \/ DOMAIN subs = {}

\* Mutant of buildPayload: the whole batch, whatever the interest set.
RECURSIVE buildPayloadUnfiltered(_, _, _)
buildPayloadUnfiltered(todo, batch, payload) ==
    IF DOMAIN batch = {} THEN payload
    ELSE LET symbol == CHOOSE s \in DOMAIN batch : TRUE
         IN  buildPayloadUnfiltered(todo, MapDelete(batch, symbol),
                                    Append(payload, batch[symbol]))

\* for (const symbol of subs) { const tick = batch.get(symbol);
\*                             if (tick) payload.push(tick) }
\* The Set is walked in some order; no operation reads the order.
RECURSIVE buildPayload(_, _, _)
buildPayload(todo, batch, payload) ==
    IF todo = {} THEN payload
    ELSE LET symbol == CHOOSE s \in todo : TRUE
             tick == MapGet(batch, symbol)
         IN  buildPayload(todo \ {symbol}, batch,
                          IF tick # NULL THEN Append(payload, tick) ELSE payload)

\* { type: "quotes", items: payload }
QuotesMessage(payload) == [type |-> "quotes", items |-> payload]

\* No send call on any socket, nothing thrown out of the loop.
NoCalls == [calls |-> [ws \in Conns |-> <<>>], uncaught |-> FALSE]

\* ws.send(data): the call is recorded with its outcome.  throws is the set
\* of sockets whose send throws in this cycle.
send(ws, msg, throws, acc) ==
    [acc EXCEPT !.calls[ws] = Append(@, [msg |-> msg, threw |-> ws \in throws])]

\* Mutant of trySend: no try/catch, what send throws leaves the loop.
trySendNoCatch(ws, payload, throws, acc) ==
    [send(ws, QuotesMessage(payload), throws, acc) EXCEPT
        !.uncaught = ws \in throws]

\* try { ws.send(JSON.stringify({ type: "quotes", items: payload })) } catch {}
\* What send throws is swallowed: uncaught stays as it was.
trySend(ws, payload, throws, acc) ==
    send(ws, QuotesMessage(payload), throws, acc)

\* Mutant of flushOne: the payload is sent without the test of its length.
flushOneNoLengthTest(ws, subs, ready, batch, throws, acc) ==
    IF ready[ws] # "OPEN" THEN acc
    ELSE trySend(ws, buildPayload(subs[ws], batch, <<>>), throws, acc)

\* The body of the loop for one subscriber.
flushOne(ws, subs, ready, batch, throws, acc) ==
    IF ready[ws] # "OPEN" THEN acc
    ELSE LET payload == buildPayload(subs[ws], batch, <<>>)
         IN  IF Len(payload) > 0
             THEN trySend(ws, payload, throws, acc)
             ELSE acc

\* Mutant of flushLoop: the loop ends after its first iteration.
flushLoopFirstOnly(todo, subs, ready, batch, throws, acc) ==
    IF todo = {} THEN acc
    ELSE flushOne(CHOOSE w \in todo : TRUE, subs, ready, batch, throws, acc)

\* for (const [ws, subs] of this.subscribers) { ... }
\* The Map is walked in some order; an exception that leaves the body ends
\* the loop.
RECURSIVE flushLoop(_, _, _, _, _, _)
flushLoop(todo, subs, ready, batch, throws, acc) ==
    IF todo = {} \/ acc.uncaught THEN acc
    ELSE LET ws == CHOOSE w \in todo : TRUE
         IN  flushLoop(todo \ {ws}, subs, ready, batch, throws,
                       flushOne(ws, subs, ready, batch, throws, acc))

\* Mutant of flushPending: the batch taken stays the pending batch.
flushPendingKeepsBatch(pend, subs) == pend

\* this.pending after flush(): kept on the early return, else new Map()
flushPending(pend, subs) ==
    IF flushReturnsEarly(pend, subs) THEN pend ELSE EmptyMap

\* What flush() sends.
flushCalls(pend, subs, ready, throws) ==
    IF flushReturnsEarly(pend, subs) THEN NoCalls
    ELSE flushLoop(DOMAIN subs, subs, ready, pend, throws, NoCalls)

(***************************************************************************)
(* The state after construction (module load: new QuoteStore(),            *)
(* new QuotePublisher(quoteStore)) and the operations.                     *)
(***************************************************************************)
\* The dashboard after its first render and the run of its effect: the
\* state and the refs as useState and useRef make them, and the timeout
\* that will connect pending.
ClientInit ==
    /\ quotes = EmptyMap
    /\ previousQuotes = EmptyMap
    /\ isConnected = FALSE
    /\ connectionError = NoError
    /\ pendingUpdates = EmptyMap
    /\ frameCounter = 0
    /\ animationFrameId = NoTimer
    /\ hasPendingUpdates = FALSE
    /\ wsRef = NoSocket
    /\ reconnectTimeoutRef = NoTimer
    /\ reconnectAttempts = 0
    /\ sockets = EmptyMap
    /\ socketsCreated = 0
    /\ windowTimers = MapSet(EmptyMap, timer, [kind |-> "connect"])
    /\ frameCallbacks = {}
    /\ updateQueue = 0
    /\ unmounted = FALSE
    /\ failedSinceOpen = 0

\* The event loop at rest: no callback is running, no event is waiting.
LoopInit ==
    /\ running = [kind |-> "none"]
    /\ raised = {}

Init ==
    /\ symbolToQuote = EmptyMap
    /\ subscribers = EmptyMap
    /\ pending = EmptyMap
    /\ readyState = [ws \in Conns |-> "OPEN"]
    /\ pubLog = <<>>
    /\ lastPublished = EmptyMap
    /\ last = [op |-> "init"]
    /\ accepted = {}
    /\ ended = [ws \in Conns |-> {}]
    /\ subscribedEver = {}
    /\ timers = EmptyMap
    /\ flushInterval = NoTimer
    /\ heartbeatInterval = NoTimer
    /\ genTimer = NoTimer
    /\ ClientInit
    /\ LoopInit

\* The interest set of ws as a set of at most one set: {} when ws has no
\* entry in the registry.
Interest(subs, ws) == IF ws \in DOMAIN subs THEN {subs[ws]} ELSE {}

AddSubscriber(ws, symbols) ==
    /\ subscribers' = addSubscriber(subscribers, ws, symbols)
    /\ last' = [op |-> "addSubscriber", ws |-> ws]
    /\ UNCHANGED <<symbolToQuote, pending, readyState, pubLog, lastPublished>>
    /\ UNCHANGED <<gatewayVars, timerVars, clientVars, loopVars>>

UpdateSubscription(ws, symbols) ==
    /\ subscribers' = updateSubscription(subscribers, ws, symbols)
    /\ last' = [op |-> "updateSubscription", ws |-> ws,
                given |-> Range(symbols),
                before |-> Interest(subscribers, ws)]
    /\ UNCHANGED <<symbolToQuote, pending, readyState, pubLog, lastPublished>>
    /\ UNCHANGED <<gatewayVars, timerVars, clientVars, loopVars>>

RemoveSubscriber(ws) ==
    /\ subscribers' = removeSubscriber(subscribers, ws)
    /\ last' = [op |-> "removeSubscriber", ws |-> ws,
                registered |-> ws \in DOMAIN subscribers]
    /\ UNCHANGED <<symbolToQuote, pending, readyState, pubLog, lastPublished>>
    /\ UNCHANGED <<gatewayVars, timerVars, clientVars, loopVars>>

Publish(symbol, price, ts) ==
    /\ Len(pubLog) < MaxPubs
    /\ symbolToQuote' = upsert(symbolToQuote, symbol, price, ts)
    /\ pending' = publishPending(pending, symbol, price, ts)
    /\ pubLog' = Append(pubLog, QuoteTick(symbol, price, ts))
    /\ lastPublished' = MapSet(lastPublished, symbol, QuoteTick(symbol, price, ts))
    /\ last' = [op |-> "publish", symbol |-> symbol, price |-> price, ts |-> ts]
    /\ UNCHANGED <<subscribers, readyState>>
    /\ UNCHANGED <<gatewayVars, timerVars, clientVars, loopVars>>

\* The flush timer fires.
Flush(throws) ==
    LET sent == flushCalls(pending, subscribers, readyState, throws)
    IN  /\ pending' = flushPending(pending, subscribers)
        /\ pubLog' = <<>>
        /\ last' = [op |-> "flush",
                    early |-> flushReturnsEarly(pending, subscribers),
                    batch |-> pending,
                    log |-> pubLog,
                    calls |-> sent.calls,
                    uncaught |-> sent.uncaught]
        /\ UNCHANGED <<symbolToQuote, subscribers, readyState, lastPublished>>
        /\ UNCHANGED <<gatewayVars, timerVars, clientVars, loopVars>>

Snapshot(symbols) ==
    /\ last' = [op |-> "snapshot", symbols |-> symbols,
                result |-> snapshot(symbolToQuote, symbols)]
    /\ UNCHANGED <<symbolToQuote, subscribers, pending, readyState, pubLog,
                   lastPublished>>
    /\ UNCHANGED <<gatewayVars, timerVars, clientVars, loopVars>>

\* The transport of a socket leaves OPEN (the peer goes away, or close() is
\* called) and never comes back.  The publisher only compares readyState
\* with WebSocket.OPEN, so CLOSING stands for CLOSING and CLOSED alike.
TransportCloses(ws) ==
    /\ readyState[ws] = "OPEN"
    /\ readyState' = [readyState EXCEPT ![ws] = "CLOSING"]
    /\ last' = [op |-> "transport", ws |-> ws]
    /\ UNCHANGED <<symbolToQuote, subscribers, pending, pubLog, lastPublished>>
    /\ UNCHANGED <<gatewayVars, timerVars, clientVars, loopVars>>

Next ==
    \/ \E ws \in Conns, symbols \in SeqsUpTo(Symbols, MaxSyms) :
           AddSubscriber(ws, symbols)
    \/ \E ws \in Conns, symbols \in SeqsUpTo(Symbols, MaxSyms) :
           UpdateSubscription(ws, symbols)
    \/ \E ws \in Conns : RemoveSubscriber(ws)
    \/ \E symbol \in Symbols, in \in PublishInputs :
           Publish(symbol, in[1], in[2])
    \/ \E throws \in SUBSET Conns : Flush(throws)
    \/ \E ws \in Conns : TransportCloses(ws)

\* The fan-out specification: registry, publish, flush, transports.
Spec == Init /\ [][Next]_vars

\* The store specification: publish, flush and snapshot over SnapSymbols,
\* with subscribers that make flush take the batch.
SnapNext ==
    \/ \E ws \in Conns : AddSubscriber(ws, <<>>)
    \/ \E symbol \in SnapSymbols, in \in PublishInputs :
           Publish(symbol, in[1], in[2])
    \/ \E throws \in SUBSET Conns : Flush(throws)
    \/ \E symbols \in SeqsUpTo(SnapSymbols, MaxReq) : Snapshot(symbols)

SnapSpec == Init /\ [][SnapNext]_vars

\* The fan-out specification with the scheduling start() sets up:
\* setInterval(() => this.flush(), this.flushMs) fires again and again.
\* Nothing makes a peer close its transport or a caller remove a subscriber.
FairSpec == Spec /\ WF_vars(\E throws \in SUBSET Conns : Flush(throws))

(***************************************************************************)
(* Reading the observation of a flush step.                                *)
(***************************************************************************)
\* The last step was a firing of the flush timer that took the batch.
Flushed == last.op = "flush" /\ ~last.early

\* The items of the i-th send call on ws in the last flush.
Items(ws, i) == last.calls[ws][i].msg.items

\* The symbols of an items list.
ItemSymbols(items) == {items[j].symbol : j \in DOMAIN items}

\* The last entry of a log for a symbol (the log has one).
LastInLog(log, symbol) ==
    log[CHOOSE n \in DOMAIN log :
            /\ log[n].symbol = symbol
            /\ \A m \in DOMAIN log : m > n => log[m].symbol # symbol]

(***************************************************************************)
(* C1  Coalescing law: whatever publish calls were made since the flush    *)
(* timer last fired, every message of the next flush holds at most one     *)
(* tick per symbol, and for a symbol published in the interval that tick   *)
(* is the one of the last publish call for it; no socket gets more than    *)
(* one message per flush.                                                  *)
(***************************************************************************)
C1_Coalescing ==
    last.op = "flush" =>
        \A ws \in Conns :
            /\ Len(last.calls[ws]) <= 1
            /\ \A i \in DOMAIN last.calls[ws] :
                   /\ \A j, k \in DOMAIN Items(ws, i) :
                          Items(ws, i)[j].symbol = Items(ws, i)[k].symbol => j = k
                   /\ \A j \in DOMAIN Items(ws, i) :
                          Items(ws, i)[j].symbol \in ItemSymbols(last.log) =>
                              Items(ws, i)[j] = LastInLog(last.log, Items(ws, i)[j].symbol)

\* AAPL@100 then AAPL@101 in one interval, and a subscriber was sent
\* exactly the message with AAPL=101.
C1_Witness ==
    /\ Flushed
    /\ last.log = <<QuoteTick("AAPL", 100, 2), QuoteTick("AAPL", 101, 1)>>
    /\ \E ws \in Conns :
           last.calls[ws] = <<[msg |-> QuotesMessage(<<QuoteTick("AAPL", 101, 1)>>),
                               threw |-> FALSE]>>

(***************************************************************************)
(* C2  Filtering correctness: every tick of every message a flush sends to *)
(* a socket has a symbol of that socket's interest set as it stands at the *)
(* flush (flush leaves the registry as it is, so this is the registry of   *)
(* the state the flush ends in).                                           *)
(***************************************************************************)
C2_Filtering ==
    last.op = "flush" =>
        \A ws \in Conns :
            \A i \in DOMAIN last.calls[ws] :
                /\ ws \in DOMAIN subscribers
                /\ ItemSymbols(Items(ws, i)) \subseteq subscribers[ws]

\* The batch held both symbols and a subscriber of MSFT alone, whose
\* interest was replaced before, was sent MSFT alone.
C2_Witness ==
    /\ Flushed
    /\ DOMAIN last.batch = {"AAPL", "MSFT"}
    /\ \E ws \in DOMAIN subscribers :
           /\ subscribers[ws] = {"MSFT"}
           /\ Len(last.calls[ws]) = 1
           /\ ItemSymbols(Items(ws, 1)) = {"MSFT"}

(***************************************************************************)
(* C3  No empty payload: no message of a flush has an empty items list,    *)
(* and a socket whose interest set has no symbol of the batch (an empty    *)
(* interest set included), or that is not registered, is sent nothing.     *)
(***************************************************************************)
C3_NoEmptyPayload ==
    last.op = "flush" =>
        \A ws \in Conns :
            /\ \A i \in DOMAIN last.calls[ws] : Len(Items(ws, i)) > 0
            /\ (ws \notin DOMAIN subscribers
                 \/ subscribers[ws] \cap DOMAIN last.batch = {}) =>
                    last.calls[ws] = <<>>

\* A flush took a batch, an open subscriber with the empty interest set was
\* sent nothing, and another subscriber was sent a message.
C3_Witness ==
    /\ Flushed
    /\ \E ws \in DOMAIN subscribers :
           /\ subscribers[ws] = {}
           /\ readyState[ws] = "OPEN"
           /\ last.calls[ws] = <<>>
    /\ \E ws \in Conns : last.calls[ws] # <<>>

(***************************************************************************)
(* C4  Exact fan-out.  The claim as written: in a flush that takes a       *)
(* batch, every registered subscriber whose interest set meets the batch   *)
(* is sent exactly one message, whose items are exactly the ticks of the   *)
(* batch for the symbols of interest set and batch.                        *)
(***************************************************************************)
\* The symbols of ws's interest set that the batch of the last flush holds.
Matching(ws) == subscribers[ws] \cap DOMAIN last.batch

\* ws was sent one message, with exactly the batch's ticks of Matching(ws).
SentExactly(ws) ==
    /\ Len(last.calls[ws]) = 1
    /\ Len(Items(ws, 1)) = Cardinality(Matching(ws))
    /\ {Items(ws, 1)[j] : j \in DOMAIN Items(ws, 1)} =
           {last.batch[symbol] : symbol \in Matching(ws)}

C4_ExactFanOutEveryRegistered ==
    Flushed =>
        \A ws \in DOMAIN subscribers : Matching(ws) # {} => SentExactly(ws)

(***************************************************************************)
(* C4 as amended: in a flush that takes a batch, every registered          *)
(* subscriber whose transport is OPEN and whose interest set meets the     *)
(* batch has send called exactly once, with exactly the ticks of the batch *)
(* for the symbols of interest set and batch; every other socket (not      *)
(* registered, transport not OPEN, or no matching symbol) is sent nothing. *)
(***************************************************************************)
C4_ExactFanOut ==
    Flushed =>
        \A ws \in Conns :
            IF ws \in DOMAIN subscribers /\ readyState[ws] = "OPEN"
               /\ Matching(ws) # {}
            THEN SentExactly(ws)
            ELSE last.calls[ws] = <<>>

\* Subscribers {AAPL} and {MSFT}, both symbols in the batch: each was sent
\* its own symbol in the same flush.
C4_Witness ==
    /\ Flushed
    /\ DOMAIN last.batch = {"AAPL", "MSFT"}
    /\ \E a, b \in DOMAIN subscribers :
           /\ subscribers[a] = {"AAPL"}
           /\ subscribers[b] = {"MSFT"}
           /\ last.calls[a] = <<[msg |-> QuotesMessage(<<last.batch["AAPL"]>>),
                                 threw |-> FALSE]>>
           /\ last.calls[b] = <<[msg |-> QuotesMessage(<<last.batch["MSFT"]>>),
                                 threw |-> FALSE]>>

(***************************************************************************)
(* C5  updateSubscription(ws, symbols) replaces and never merges: after    *)
(* the call the interest set of ws is exactly the set of the symbols       *)
(* given, whatever it was, and the entry of every other socket (there or   *)
(* not, and its set) is as it was.                                         *)
(***************************************************************************)
C5_UpdateReplaces ==
    [][last'.op = "updateSubscription" =>
          /\ last'.ws \in DOMAIN subscribers'
          /\ subscribers'[last'.ws] = last'.given
          /\ \A other \in Conns \ {last'.ws} :
                 Interest(subscribers', other) = Interest(subscribers, other)
      ]_vars

\* A subscriber of AAPL alone was updated and is a subscriber of MSFT alone,
\* while another socket is registered.
C5_Witness ==
    /\ last.op = "updateSubscription"
    /\ last.before = {{"AAPL"}}
    /\ last.given = {"MSFT"}
    /\ subscribers[last.ws] = {"MSFT"}
    /\ \E other \in DOMAIN subscribers : other # last.ws

(***************************************************************************)
(* C6  removeSubscriber is idempotent: after removeSubscriber(ws) the      *)
(* registry has no entry for ws; the entries of the other sockets, the     *)
(* pending batch and the store are as they were; and for a socket that is  *)
(* not registered (never added, or removed before) the registry as a whole *)
(* is as it was.                                                           *)
(***************************************************************************)
C6_RemoveIdempotent ==
    [][last'.op = "removeSubscriber" =>
          /\ last'.ws \notin DOMAIN subscribers'
          /\ \A other \in Conns \ {last'.ws} :
                 Interest(subscribers', other) = Interest(subscribers, other)
          /\ pending' = pending
          /\ symbolToQuote' = symbolToQuote
          /\ (last'.ws \notin DOMAIN subscribers => subscribers' = subscribers)
      ]_vars

\* removeSubscriber was called for a socket that was not registered, while
\* another socket is registered and the batch is not empty.
C6_Witness ==
    /\ last.op = "removeSubscriber"
    /\ ~last.registered
    /\ DOMAIN subscribers # {}
    /\ DOMAIN pending # {}

(***************************************************************************)
(* C7  snapshot(symbols) holds exactly one entry per distinct requested    *)
(* symbol: null for a symbol never published, a tick of that symbol for a  *)
(* published one.                                                          *)
(***************************************************************************)
C7_SnapshotEntryPerSymbol ==
    last.op = "snapshot" =>
        /\ DOMAIN last.result = Range(last.symbols)
        /\ \A symbol \in Range(last.symbols) :
               /\ symbol \in DOMAIN last.result
               /\ IF symbol \in DOMAIN lastPublished
                  THEN /\ last.result[symbol] # NULL
                       /\ last.result[symbol].symbol = symbol
                  ELSE last.result[symbol] = NULL

\* The same for the requested symbols other than "__proto__", and no entry
\* for a symbol that was not requested: this part of C7 holds.
SnapshotOfOrdinarySymbols ==
    last.op = "snapshot" =>
        /\ DOMAIN last.result \subseteq Range(last.symbols)
        /\ \A symbol \in Range(last.symbols) \ {"__proto__"} :
               /\ symbol \in DOMAIN last.result
               /\ last.result[symbol] = MapGet(lastPublished, symbol)

(***************************************************************************)
(* C8  publish writes through: right after publish(symbol, price, ts) the  *)
(* store's tick and the pending batch's entry for symbol are               *)
(* (symbol, price, ts), whatever was stored (an older ts replaces a newer  *)
(* one); and after any publish calls and flushes snapshot returns for a    *)
(* published symbol the tick of the last publish call for it.              *)
(***************************************************************************)
C8_PublishWritesThrough ==
    /\ last.op = "publish" =>
           /\ MapGet(symbolToQuote, last.symbol) =
                  QuoteTick(last.symbol, last.price, last.ts)
           /\ MapGet(pending, last.symbol) =
                  QuoteTick(last.symbol, last.price, last.ts)
    /\ last.op = "snapshot" =>
           \A symbol \in Range(last.symbols) \cap DOMAIN lastPublished :
               /\ symbol \in DOMAIN last.result
               /\ last.result[symbol] = lastPublished[symbol]

\* The store half of C8 holds: the store is the last publish call per
\* symbol in every state (no flush clears it, no timestamp is compared),
\* and publish leaves its tick in the pending batch.
StoreIsLastPublished ==
    /\ symbolToQuote = lastPublished
    /\ last.op = "publish" =>
           MapGet(pending, last.symbol) = QuoteTick(last.symbol, last.price, last.ts)

(***************************************************************************)
(* C9  Delivery-failure isolation: no exception leaves flush, and when the *)
(* send to one subscriber throws, or its transport is not OPEN, every      *)
(* other registered subscriber with an OPEN transport and a matching       *)
(* symbol is still sent its message in the same flush.                     *)
(***************************************************************************)
\* The flush could not deliver to ws: not OPEN, or its send threw.
DeliveryFailed(ws) ==
    /\ ws \in DOMAIN subscribers
    /\ Matching(ws) # {}
    /\ \/ readyState[ws] # "OPEN"
       \/ \E i \in DOMAIN last.calls[ws] : last.calls[ws][i].threw

C9_DeliveryIsolation ==
    last.op = "flush" =>
        /\ ~last.uncaught
        /\ \A failed \in Conns :
               (~last.early /\ DeliveryFailed(failed)) =>
                   \A other \in DOMAIN subscribers \ {failed} :
                       (readyState[other] = "OPEN" /\ Matching(other) # {}) =>
                           SentExactly(other)

\* The send to one subscriber threw and another subscriber was delivered
\* its message in the same flush.
C9_Witness ==
    /\ Flushed
    /\ \E failed, other \in DOMAIN subscribers :
           /\ failed # other
           /\ Len(last.calls[failed]) = 1
           /\ last.calls[failed][1].threw
           /\ Len(last.calls[other]) = 1
           /\ ~last.calls[other][1].threw

(***************************************************************************)
(* C10  A subscriber to which delivery failed during a flush is pruned:    *)
(* after a flush whose send to ws threw, ws is eventually no longer in the *)
(* registry.                                                               *)
(***************************************************************************)
C10_FailedSubscriberPruned ==
    \A ws \in Conns :
        (last.op = "flush" /\ last.calls[ws] # <<>> /\ last.calls[ws][1].threw)
            ~> (ws \notin DOMAIN subscribers)

(***************************************************************************)
(* Timers: setInterval / clearInterval and QuotePublisher.start / stop.    *)
(***************************************************************************)
\* constructor(store, flushMs = 50, heartbeatMs = 15000)
flushMs == 50
heartbeatMs == 15000

\* The id of the timer the next setInterval creates: a new Timeout object,
\* told apart from every active one.
NewTimerId(tm) == CHOOSE id \in 1..(Cardinality(DOMAIN tm) + 1) : id \notin DOMAIN tm

\* setInterval(callback, ms): the closure is kept by the event loop.
setInterval(tm, closure) == MapSet(tm, NewTimerId(tm), closure)

\* Mutant of clearInterval: the timer stays active.
clearIntervalNoOp(tm, id) == tm

\* clearInterval(id)
clearInterval(tm, id) == MapDelete(tm, id)

\* A timer with a callback of this kind is active: the event loop fires it
\* again and again until clearInterval is called with its id.
Scheduled(kind) == \E id \in DOMAIN timers : timers[id].kind = kind

\* The publisher's part of the timer state.
PublisherTimers == [timers |-> timers, flushInterval |-> flushInterval,
                    heartbeatInterval |-> heartbeatInterval]

\* Mutant of startFlush: the timer is created whether or not one is active.
startFlushUnguarded(p) ==
    [p EXCEPT !.flushInterval = NewTimerId(p.timers),
              !.timers = setInterval(p.timers, [kind |-> "flush", ms |-> flushMs])]

\* if (!this.flushInterval)
\*     this.flushInterval = setInterval(() => this.flush(), this.flushMs)
startFlush(p) ==
    IF p.flushInterval = NoTimer
    THEN [p EXCEPT !.flushInterval = NewTimerId(p.timers),
                   !.timers = setInterval(p.timers, [kind |-> "flush", ms |-> flushMs])]
    ELSE p

\* if (!this.heartbeatInterval)
\*     this.heartbeatInterval = setInterval(() => this.pingAll(), this.heartbeatMs)
startHeartbeat(p) ==
    IF p.heartbeatInterval = NoTimer
    THEN [p EXCEPT !.heartbeatInterval = NewTimerId(p.timers),
                   !.timers = setInterval(p.timers, [kind |-> "heartbeat",
                                                     ms |-> heartbeatMs])]
    ELSE p

\* start()
start(p) == startHeartbeat(startFlush(p))

\* stop()
stop(p) ==
    LET t1 == IF p.flushInterval # NoTimer
              THEN clearInterval(p.timers, p.flushInterval) ELSE p.timers
        t2 == IF p.heartbeatInterval # NoTimer
              THEN clearInterval(t1, p.heartbeatInterval) ELSE t1
    IN  [timers |-> t2, flushInterval |-> NoTimer, heartbeatInterval |-> NoTimer]

(***************************************************************************)
(* QuotePublisher: the heartbeat.                                          *)
(***************************************************************************)
\* Mutant of pingAll: ping is called on every registered socket.
pingAllEveryone(subs, ready) == DOMAIN subs

\* pingAll(): for (const ws of this.subscribers.keys())
\*     try { if (ws.readyState === WebSocket.OPEN) ws.ping() } catch {}
\* The sockets ping() is called on.
pingAll(subs, ready) == {ws \in DOMAIN subs : ready[ws] = "OPEN"}

\* The flush timer fires.
FlushFires(throws) ==
    /\ Scheduled("flush")
    /\ Flush(throws)

\* The heartbeat timer fires.  throws is the set of sockets whose ping()
\* throws; the catch swallows it and the registry is left as it is.
PingAllFires(throws) ==
    /\ Scheduled("heartbeat")
    /\ last' = [op |-> "pingAll",
                pinged |-> pingAll(subscribers, readyState),
                threw |-> pingAll(subscribers, readyState) \cap throws]
    /\ UNCHANGED <<symbolToQuote, subscribers, pending, readyState, pubLog,
                   lastPublished>>
    /\ UNCHANGED <<gatewayVars, timerVars, clientVars, loopVars>>

(***************************************************************************)
(* The gateway: attachQuoteWSServer and the handlers of a connection.      *)
(***************************************************************************)
\* Symbols of the gateway specification: "7" is what String() makes of the
\* number 7.
GwSymbols == {"AAPL", "7"}

\* JavaScript values found in the symbols array of a message.
JSString(v) == [t |-> "string", v |-> v]
JSNumber(n) == [t |-> "number", n |-> n]

\* The decimal digits.
Digit == <<"0", "1", "2", "3", "4", "5", "6", "7", "8", "9">>

\* Number.prototype.toString of a natural number.
RECURSIVE NumberToString(_)
NumberToString(n) ==
    IF n < 10 THEN Digit[n + 1]
    ELSE NumberToString(n \div 10) \o Digit[(n % 10) + 1]

\* String(s)
String(s) == IF s.t = "string" THEN s.v ELSE NumberToString(s.n)

\* msg.symbols.map((s) => String(s))
RECURSIVE mapString(_)
mapString(symbols) ==
    IF symbols = <<>> THEN <<>>
    ELSE <<String(Head(symbols))>> \o mapString(Tail(symbols))

\* Mutant of uniq: the array as it is, duplicates kept.
uniqKeepsDuplicates(strings, seen) == strings

\* Array.from(new Set<string>(strings)): a Set keeps the order of the first
\* insertion of each value.
RECURSIVE uniq(_, _)
uniq(strings, seen) ==
    IF strings = <<>> THEN <<>>
    ELSE IF Head(strings) \in seen THEN uniq(Tail(strings), seen)
    ELSE <<Head(strings)>> \o uniq(Tail(strings), seen \cup {Head(strings)})

\* The symbols arrays of the subscribe messages of the model: empty, one
\* symbol, a symbol twice, a string and the number that converts to it, two
\* symbols in either order.
SymbolArrays ==
    {<<>>,
     <<JSString("AAPL")>>,
     <<JSString("AAPL"), JSString("AAPL")>>,
     <<JSString("7"), JSNumber(7)>>,
     <<JSNumber(7), JSString("AAPL")>>,
     <<JSString("AAPL"), JSString("7")>>}

\* A frame received on a connection, as what JSON.parse(String(raw)) makes
\* of it: a SyntaxError, or a value.  The values: null, an object of another
\* type, a subscribe object whose symbols is a string, and the subscribe
\* objects whose symbols is one of SymbolArrays.
NotJSON == [parses |-> FALSE]
Parsed(value) == [parses |-> TRUE, value |-> value]
JSObject(type, isArray, symbols) ==
    [type |-> type, isArray |-> isArray, symbols |-> symbols]
Malformed ==
    {NotJSON, Parsed(NULL), Parsed(JSObject("ping", TRUE, <<>>)),
     Parsed(JSObject("subscribe", FALSE, <<>>))}
Frames ==
    Malformed \cup
    {Parsed(JSObject("subscribe", TRUE, symbols)) :
         symbols \in SymbolArrays}

\* Mutant of isSubscribe: Array.isArray(msg.symbols) is not tested.
isSubscribeAnySymbols(raw) ==
    /\ raw.parses
    /\ raw.value # NULL
    /\ raw.value.type = "subscribe"

\* JSON.parse did not throw, and
\* msg && msg.type === "subscribe" && Array.isArray(msg.symbols)
isSubscribe(raw) ==
    /\ raw.parses
    /\ raw.value # NULL
    /\ raw.value.type = "subscribe"
    /\ raw.value.isArray

\* { type: "hello" }
HelloMessage == [type |-> "hello"]

\* { type: "subscribed", symbols: uniq }
SubscribedMessage(symbols) == [type |-> "subscribed", symbols |-> symbols]

\* Mutant of onConnection: the socket is registered for every symbol.
onConnectionAllSymbols(subs, ws) == MapSet(subs, ws, GwSymbols)

\* wss.on("connection"), the registry: quotePublisher.addSubscriber(ws, [])
onConnection(subs, ws) == addSubscriber(subs, ws, <<>>)

\* Mutant of onMessage: the subscription is applied to every registered
\* socket.
onMessageEverySocket(subs, ws, raw, throws) ==
    IF isSubscribe(raw)
    THEN LET symbols == uniq(mapString(raw.value.symbols), {})
         IN  [subs |-> [w \in (DOMAIN subs) \cup {ws} |-> addAll({}, symbols)],
              processed |-> TRUE,
              calls |-> send(ws, SubscribedMessage(symbols), throws, NoCalls).calls]
    ELSE [subs |-> subs, processed |-> FALSE, calls |-> NoCalls.calls]

\* ws.on("message", (raw) => { try { ... } catch {} }): the registry after
\* the handler, and what it sent.  Whatever is thrown, by JSON.parse or by
\* send, is swallowed.
onMessage(subs, ws, raw, throws) ==
    IF isSubscribe(raw)
    THEN LET symbols == uniq(mapString(raw.value.symbols), {})
         IN  [subs |-> updateSubscription(subs, ws, symbols),
              processed |-> TRUE,
              calls |-> send(ws, SubscribedMessage(symbols), throws, NoCalls).calls]
    ELSE [subs |-> subs, processed |-> FALSE, calls |-> NoCalls.calls]

\* The symbols a frame asks for, each as the string it converts to.
Requested(raw) ==
    IF raw \in Malformed THEN {}
    ELSE {String(raw.value.symbols[i]) : i \in DOMAIN raw.value.symbols}

\* A new connection is accepted: the "connection" handler runs, registers
\* the socket with an empty interest set, attaches the handlers of the
\* socket and sends hello inside try/catch.
Connection(ws, throws) ==
    /\ ws \notin accepted
    /\ accepted' = accepted \cup {ws}
    /\ subscribers' = onConnection(subscribers, ws)
    /\ last' = [op |-> "connection", ws |-> ws,
                calls |-> send(ws, HelloMessage, throws, NoCalls).calls]
    /\ UNCHANGED <<symbolToQuote, pending, readyState, pubLog, lastPublished>>
    /\ UNCHANGED <<ended, subscribedEver, timerVars, clientVars, loopVars>>

\* The socket emits "message".  It does so while the connection is OPEN, and
\* also while it is CLOSING (after close() was called here, the frames the
\* peer had queued still arrive); it does not after "close".
Message(ws, raw, throws) ==
    LET r == onMessage(subscribers, ws, raw, throws)
    IN  /\ ws \in accepted
        /\ "close" \notin ended[ws]
        /\ subscribers' = r.subs
        /\ subscribedEver' = IF r.processed THEN subscribedEver \cup {ws}
                             ELSE subscribedEver
        /\ last' = [op |-> "message", ws |-> ws,
                    malformed |-> raw \in Malformed,
                    given |-> Requested(raw),
                    processed |-> r.processed, calls |-> r.calls]
        /\ UNCHANGED <<symbolToQuote, pending, readyState, pubLog, lastPublished>>
        /\ UNCHANGED <<accepted, ended, timerVars, clientVars, loopVars>>

\* The socket emits "pong": ws.on("pong", () => {}) does nothing.
Pong(ws) ==
    /\ ws \in accepted
    /\ "close" \notin ended[ws]
    /\ last' = [op |-> "pong", ws |-> ws]
    /\ UNCHANGED <<symbolToQuote, subscribers, pending, readyState, pubLog,
                   lastPublished>>
    /\ UNCHANGED <<gatewayVars, timerVars, clientVars, loopVars>>

\* The socket emits "close", the last event of a connection:
\* quotePublisher.removeSubscriber(ws)
Close(ws) ==
    /\ ws \in accepted
    /\ "close" \notin ended[ws]
    /\ readyState' = [readyState EXCEPT ![ws] = "CLOSING"]
    /\ subscribers' = removeSubscriber(subscribers, ws)
    /\ ended' = [ended EXCEPT ![ws] = @ \cup {"close"}]
    /\ last' = [op |-> "close", ws |-> ws]
    /\ UNCHANGED <<symbolToQuote, pending, pubLog, lastPublished>>
    /\ UNCHANGED <<accepted, subscribedEver, timerVars, clientVars, loopVars>>

\* The socket emits "error" (once, and before "close"):
\* try { ws.close() } catch {}; quotePublisher.removeSubscriber(ws)
\* close() starts the closing handshake: readyState leaves OPEN.
Error(ws) ==
    /\ ws \in accepted
    /\ ended[ws] = {}
    /\ readyState' = [readyState EXCEPT ![ws] = "CLOSING"]
    /\ subscribers' = removeSubscriber(subscribers, ws)
    /\ ended' = [ended EXCEPT ![ws] = @ \cup {"error"}]
    /\ last' = [op |-> "error", ws |-> ws]
    /\ UNCHANGED <<symbolToQuote, pending, pubLog, lastPublished>>
    /\ UNCHANGED <<accepted, subscribedEver, timerVars, clientVars, loopVars>>

\* The peer starts to close an accepted connection.
PeerCloses(ws) ==
    /\ ws \in accepted
    /\ "close" \notin ended[ws]
    /\ TransportCloses(ws)

\* The state after module load and attachQuoteWSServer(server): the
\* WebSocketServer exists and quotePublisher.start() has run.
GwInit ==
    /\ symbolToQuote = EmptyMap
    /\ subscribers = EmptyMap
    /\ pending = EmptyMap
    /\ readyState = [ws \in Conns |-> "OPEN"]
    /\ pubLog = <<>>
    /\ lastPublished = EmptyMap
    /\ last = [op |-> "init"]
    /\ accepted = {}
    /\ ended = [ws \in Conns |-> {}]
    /\ subscribedEver = {}
    /\ timers = start([timers |-> EmptyMap, flushInterval |-> NoTimer,
                       heartbeatInterval |-> NoTimer]).timers
    /\ flushInterval = start([timers |-> EmptyMap, flushInterval |-> NoTimer,
                              heartbeatInterval |-> NoTimer]).flushInterval
    /\ heartbeatInterval = start([timers |-> EmptyMap, flushInterval |-> NoTimer,
                                  heartbeatInterval |-> NoTimer]).heartbeatInterval
    /\ genTimer = NoTimer
    /\ ClientInit
    /\ LoopInit

GwNext ==
    \/ \E ws \in Conns : \E throws \in SUBSET {ws} : Connection(ws, throws)
    \/ \E ws \in Conns, raw \in Frames : \E throws \in SUBSET {ws} :
           Message(ws, raw, throws)
    \/ \E ws \in Conns : Pong(ws)
    \/ \E ws \in Conns : Close(ws)
    \/ \E ws \in Conns : Error(ws)
    \/ \E ws \in Conns : PeerCloses(ws)
    \/ Publish("AAPL", 100, 1)
    \/ \E throws \in SUBSET Conns : FlushFires(throws)
    \/ \E throws \in SUBSET Conns : PingAllFires(throws)

\* The gateway specification: connections, their events, publish and the
\* two timers of the publisher.
GwSpec == GwInit /\ [][GwNext]_vars

\* The gateway specification with the scheduling start() sets up: the flush
\* timer and the heartbeat timer fire again and again.
FairGwSpec ==
    /\ GwSpec
    /\ WF_vars(\E throws \in SUBSET Conns : FlushFires(throws))
    /\ WF_vars(\E throws \in SUBSET Conns : PingAllFires(throws))

(***************************************************************************)
(* C11  Heartbeat: every firing of the heartbeat timer sends a ping to     *)
(* every registered subscriber whose transport is OPEN, and a subscriber   *)
(* whose ping failed to send is eventually removed from the registry or    *)
(* closed.                                                                 *)
(***************************************************************************)
C11_HeartbeatPrunes ==
    /\ [](last.op = "pingAll" =>
              last.pinged = {ws \in DOMAIN subscribers : readyState[ws] = "OPEN"})
    /\ \A ws \in Conns :
           (last.op = "pingAll" /\ ws \in last.threw)
               ~> (ws \notin DOMAIN subscribers \/ readyState[ws] # "OPEN")

(***************************************************************************)
(* Reading the observation of a gateway step.                              *)
(***************************************************************************)
\* The send calls the last step made on ws (none when the step has none).
CallsOn(ws) ==
    IF last.op \in {"flush", "connection", "message"} THEN last.calls[ws] ELSE <<>>

(***************************************************************************)
(* C12  No dangling registration: once the close or the error event of a   *)
(* connection has been handled, the socket is in the registry in no later  *)
(* state.                                                                  *)
(***************************************************************************)
C12_NoDanglingRegistration ==
    \A ws \in Conns : ended[ws] # {} => ws \notin DOMAIN subscribers

(***************************************************************************)
(* C13  CLOSED is terminal: a message that arrives after the close or the  *)
(* error event of its connection was handled is not processed: no update   *)
(* of the registry, no acknowledgement.                                    *)
(***************************************************************************)
C13_ClosedIsTerminal ==
    (last.op = "message" /\ ended[last.ws] # {}) =>
        /\ ~last.processed
        /\ last.calls[last.ws] = <<>>

(***************************************************************************)
(* C14  Accepting a connection registers the socket with an empty interest *)
(* set and sends hello; no other message is sent on a socket before that,  *)
(* and quotes are sent only on sockets a subscribe message was processed   *)
(* for.                                                                    *)
(***************************************************************************)
C14_HelloFirst ==
    /\ last.op = "connection" =>
           /\ subscribers[last.ws] = {}
           /\ Len(last.calls[last.ws]) = 1
           /\ last.calls[last.ws][1].msg = HelloMessage
    /\ \A ws \in Conns :
           /\ (last.op # "connection" /\ CallsOn(ws) # <<>>) => ws \in accepted
           /\ (last.op = "flush" /\ CallsOn(ws) # <<>>) => ws \in subscribedEver

\* A flush delivered a quotes message to a subscribed socket and nothing to
\* an accepted, registered, OPEN socket that has not subscribed yet.
C14_Witness ==
    /\ Flushed
    /\ \E ws, other \in Conns :
           /\ CallsOn(ws) # <<>>
           /\ other \in accepted \ subscribedEver
           /\ other \in DOMAIN subscribers
           /\ readyState[other] = "OPEN"
           /\ CallsOn(other) = <<>>

(***************************************************************************)
(* C15  A well-formed subscribe message replaces the interest set of its   *)
(* connection by the symbols it lists, as strings and without duplicates,  *)
(* and then sends one subscribed message whose symbols are that interest   *)
(* set, each once; the registry is updated even when the send throws.      *)
(***************************************************************************)
C15_SubscribeAcknowledged ==
    (last.op = "message" /\ ~last.malformed) =>
        LET calls == last.calls[last.ws]
        IN  /\ last.processed
            /\ last.ws \in DOMAIN subscribers
            /\ subscribers[last.ws] = last.given
            /\ Len(calls) = 1
            /\ calls[1].msg.type = "subscribed"
            /\ Range(calls[1].msg.symbols) = subscribers[last.ws]
            /\ Len(calls[1].msg.symbols) = Cardinality(subscribers[last.ws])
            /\ \A other \in Conns \ {last.ws} : last.calls[other] = <<>>

\* A subscribe message for two symbols, one of them given as a number, was
\* acknowledged on an OPEN connection.
C15_Witness ==
    /\ last.op = "message"
    /\ ~last.malformed
    /\ last.given = {"AAPL", "7"}
    /\ readyState[last.ws] = "OPEN"
    /\ ~last.calls[last.ws][1].threw

(***************************************************************************)
(* C16  A malformed message (not JSON, not of type subscribe, symbols not  *)
(* a list) is ignored: nothing is sent, and the registry, the transports   *)
(* and the connection's handlers stay as they were, so later messages are  *)
(* still handled.                                                          *)
(***************************************************************************)
C16_MalformedIgnored ==
    [][(last'.op = "message" /\ last'.malformed) =>
           /\ ~last'.processed
           /\ \A ws \in Conns : last'.calls[ws] = <<>>
           /\ UNCHANGED <<subscribers, readyState, accepted, ended, subscribedEver,
                          symbolToQuote, pending, timerVars>>]_vars

\* A malformed message was ignored on an OPEN connection that is registered
\* with a non-empty interest set.
C16_Witness ==
    /\ last.op = "message"
    /\ last.malformed
    /\ readyState[last.ws] = "OPEN"
    /\ last.ws \in DOMAIN subscribers
    /\ subscribers[last.ws] # {}

(***************************************************************************)
(* 32-bit integer arithmetic of mulberry32.  A word is <<hi, lo>>, two     *)
(* halves of 16 bits, so that no intermediate value leaves the integers    *)
(* the model checker computes with.                                        *)
(***************************************************************************)
\* 2^16
W16 == 65536

\* Math.max, Math.min
Max(a, b) == IF a >= b THEN a ELSE b
Min(a, b) == IF a <= b THEN a ELSE b

\* x ^ y on the low n bits.
RECURSIVE xorBits(_, _, _)
xorBits(x, y, n) ==
    IF n = 0 THEN 0
    ELSE ((x + y) % 2) + 2 * xorBits(x \div 2, y \div 2, n - 1)

\* x | y on the low n bits.
RECURSIVE orBits(_, _, _)
orBits(x, y, n) ==
    IF n = 0 THEN 0
    ELSE (IF x % 2 = 1 \/ y % 2 = 1 THEN 1 ELSE 0)
         + 2 * orBits(x \div 2, y \div 2, n - 1)

\* 2^k
RECURSIVE Pow2(_)
Pow2(k) == IF k = 0 THEN 1 ELSE 2 * Pow2(k - 1)

\* a ^ b
Xor(a, b) == <<xorBits(a[1], b[1], 16), xorBits(a[2], b[2], 16)>>

\* a | b
Or(a, b) == <<orBits(a[1], b[1], 16), orBits(a[2], b[2], 16)>>

\* a >>> k, for 0 < k < 16
Shr(a, k) ==
    <<a[1] \div Pow2(k), (a[1] % Pow2(k)) * Pow2(16 - k) + a[2] \div Pow2(k)>>

\* a + b, modulo 2^32
Add(a, b) ==
    <<(a[1] + b[1] + (a[2] + b[2]) \div W16) % W16, (a[2] + b[2]) % W16>>

\* The product of two halves, a word: x * y = (x div 256) * y * 256
\* + (x mod 256) * y.
Mul16(x, y) ==
    LET p1 == (x \div 256) * y
        p0 == (x % 256) * y
    IN  Add(<<p1 \div 256, (p1 % 256) * 256>>, <<p0 \div W16, p0 % W16>>)

\* Math.imul(a, b): the low 32 bits of the product.
Imul(a, b) ==
    Add(Mul16(a[2], b[2]),
        <<(Mul16(a[1], b[2])[2] + Mul16(a[2], b[1])[2]) % W16, 0>>)

\* Math.floor((u / 4294967296) * n) for a word u and 0 <= n <= 1000.
\* The product is exact in a double.
Scale(u, n) == (u[1] * n + (u[2] * n) \div W16) \div W16

\* mulberry32(seed): let t = seed >>> 0
mulberry32(seed) == <<(seed \div W16) % W16, seed % W16>>

\* let r = Math.imul(t ^ (t >>> 15), 1 | t)
mix1(t) == Imul(Xor(t, Shr(t, 15)), Or(<<0, 1>>, t))

\* r ^= r + Math.imul(r ^ (r >>> 7), 61 | r)
mix2(r) == Xor(r, Add(r, Imul(Xor(r, Shr(r, 7)), Or(<<0, 61>>, r))))

\* (r ^ (r >>> 14)) >>> 0
mix3(r) == Xor(r, Shr(r, 14))

\* t += 0x6D2B79F5.  t is kept modulo 2^32: the operators that read it
\* take it modulo 2^32.
advance(t) == Add(t, <<27947, 31221>>)

\* One call of the function mulberry32 returns: the new t, and the value
\* returned as the word u (the value is u / 4294967296).
rng(t) == [t |-> advance(t), u |-> mix3(mix2(mix1(advance(t))))]

(***************************************************************************)
(* The random quote generator.  Prices are in hundredths.                  *)
(***************************************************************************)
\* Firings of a generator timer in one run.
MaxFirings == 2

\* The default symbols.
DefaultSymbols ==
    <<"AAPL", "MSFT", "GOOG", "AMZN", "META", "NVDA", "TSLA", "AMD", "NFLX", "INTC">>

\* The values t takes in the first n calls of a function mulberry32 returns.
RECURSIVE Orbit(_, _)
Orbit(t, n) == IF n = 0 THEN {} ELSE {t} \cup Orbit(rng(t).t, n - 1)

\* rng on the values of t a run of the model reaches from the seed 42,
\* computed once.
RngTable ==
    [t \in Orbit(mulberry32(42), Len(DefaultSymbols) + 4 * MaxFirings) |-> rng(t)]

\* rng(), read from the table where the table has it.
rngCall(t) == IF t \in DOMAIN RngTable THEN RngTable[t] ELSE rng(t)

\* symbols[i] for an index outside the array.
Undefined == "(undefined)"

\* startRandomQuoteGenerator's opts: symbols (absent or an array) and
\* ratePerSec (0 for absent, NaN or 0: what || replaces).
Options(hasSymbols, symbols, ratePerSec) ==
    [hasSymbols |-> hasSymbols, symbols |-> symbols, ratePerSec |-> ratePerSec]

\* The options of the model: nothing given; two symbols at the rates 1 and
\* 20; an empty array of symbols.
GenOptions ==
    {Options(FALSE, <<>>, 0),
     Options(TRUE, <<"AAPL", "MSFT">>, 1),
     Options(TRUE, <<"AAPL", "MSFT">>, 20),
     Options(TRUE, <<>>, 1)}

\* new Date().toISOString() when a generator timer fires.
GenClock == {1}

\* Math.max(1, Math.min(1000, Math.floor(opts?.ratePerSec || 20)))
baseRate(ratePerSec) == Max(1, Min(1000, IF ratePerSec = 0 THEN 20 ELSE ratePerSec))

\* Math.max(1, Math.floor(baseRate / 10))
updates(b) == Max(1, b \div 10)

\* Math.max(10, Math.floor(1000 / Math.max(1, baseRate)))
intervalMs(b) == Max(10, 1000 \div Max(1, b))

\* for (const s of symbols) priceMap.set(s, 100 + Math.floor(rng() * 200))
RECURSIVE initPrices(_, _, _)
initPrices(symbols, t, priceMap) ==
    IF symbols = <<>> THEN [t |-> t, priceMap |-> priceMap]
    ELSE LET r == rngCall(t)
         IN  initPrices(Tail(symbols), r.t,
                        MapSet(priceMap, Head(symbols), (100 + Scale(r.u, 200)) * 100))

\* Number((last + delta).toFixed(2)) with delta = (rng() - 0.5) * 2, in
\* hundredths: last + 200 u / 2^32 - 100, rounded to the nearest integer.
\* (toFixed rounds the double last + delta; the two differ at most when the
\* exact sum lies half-way between two hundredths.)
perturb(lastPrice, u) == lastPrice - 100 + (Scale(u, 400) + 1) \div 2

\* const s = symbols[Math.floor(rng() * symbols.length)]
symbolAt(symbols, i) == IF i + 1 \in DOMAIN symbols THEN symbols[i + 1] ELSE Undefined

\* const last = priceMap.get(s) || 100
lastPrice(priceMap, s) == IF s \in DOMAIN priceMap THEN priceMap[s] ELSE 10000

\* priceMap.set(s, next); quotePublisher.publish(s, next, now): the closure
\* g after them, with rng's t, and the pair (s, next) added to its log.
setAndPublish(g, s, next, t) ==
    [g EXCEPT !.t = t, !.priceMap = MapSet(@, s, next),
              !.log = Append(@, [symbol |-> s, price |-> next])]

\* Mutant of moveSymbol: the price is not clamped to the floor.
moveSymbolNoFloor(g, s, r2) ==
    setAndPublish(g, s, perturb(lastPrice(g.priceMap, s), r2.u), r2.t)

\* const next = Math.max(1, Number((last + delta).toFixed(2))), r2 being
\* the call of rng() for delta.
moveSymbol(g, s, r2) ==
    setAndPublish(g, s, Max(100, perturb(lastPrice(g.priceMap, s), r2.u)), r2.t)

\* One pass of the body of tick's loop, r1 being the call of rng() for s.
update(g, r1) ==
    moveSymbol(g, symbolAt(g.symbols, Scale(r1.u, Len(g.symbols))), rngCall(r1.t))

\* for (let i = 0; i < updates; i++) { ... }
RECURSIVE tickLoop(_, _)
tickLoop(n, g) ==
    IF n = 0 THEN g ELSE tickLoop(n - 1, update(g, rngCall(g.t)))

\* tick(): the closure after one firing.
tick(g) == [tickLoop(updates(g.baseRate), g) EXCEPT !.firings = @ + 1]

\* The pairs the firing that took the closure from g to g2 has published.
Published(g, g2) == SubSeq(g2.log, Len(g.log) + 1, Len(g2.log))

\* Mutant of startRandomQuoteGenerator: the PRNG and the running prices of
\* the generator that is replaced are kept.
startKeepsRunningState(opts, tm, gt) ==
    LET symbols == IF opts.hasSymbols THEN opts.symbols ELSE DefaultSymbols
        b == baseRate(opts.ratePerSec)
        tm1 == IF gt # NoTimer THEN clearInterval(tm, gt) ELSE tm
        init == IF gt # NoTimer
                THEN [t |-> tm[gt].t, priceMap |-> tm[gt].priceMap]
                ELSE initPrices(symbols, mulberry32(42), EmptyMap)
    IN  [timers |-> setInterval(tm1, [kind |-> "gen", opts |-> opts,
                                      symbols |-> symbols, baseRate |-> b,
                                      ms |-> intervalMs(b), t |-> init.t,
                                      priceMap |-> init.priceMap, log |-> <<>>,
                                      firings |-> 0]),
         genTimer |-> NewTimerId(tm1),
         info |-> [running |-> TRUE, symbols |-> symbols, intervalMs |-> intervalMs(b)]]

\* startRandomQuoteGenerator(opts): the timers and genTimer after the call,
\* and what it returns.  The closure of the new timer holds what tick reads
\* (symbols, baseRate, rng's t, priceMap) and, as history, the options, the
\* (symbol, price) pairs published and the number of firings.
startRandomQuoteGenerator(opts, tm, gt) ==
    LET symbols == IF opts.hasSymbols THEN opts.symbols ELSE DefaultSymbols
        b == baseRate(opts.ratePerSec)
        tm1 == IF gt # NoTimer THEN clearInterval(tm, gt) ELSE tm
        init == initPrices(symbols, mulberry32(42), EmptyMap)
    IN  [timers |-> setInterval(tm1, [kind |-> "gen", opts |-> opts,
                                      symbols |-> symbols, baseRate |-> b,
                                      ms |-> intervalMs(b), t |-> init.t,
                                      priceMap |-> init.priceMap, log |-> <<>>,
                                      firings |-> 0]),
         genTimer |-> NewTimerId(tm1),
         info |-> [running |-> TRUE, symbols |-> symbols, intervalMs |-> intervalMs(b)]]

\* Mutant of stopRandomQuoteGenerator: the handle is dropped, the timer is
\* not cleared.
stopDropsHandle(tm, gt) == [timers |-> tm, genTimer |-> NoTimer]

\* stopRandomQuoteGenerator()
stopRandomQuoteGenerator(tm, gt) ==
    [timers |-> IF gt # NoTimer THEN clearInterval(tm, gt) ELSE tm,
     genTimer |-> NoTimer]

\* quotePublisher.publish for each tick of a list, on the store.
RECURSIVE upsertAll(_, _, _)
upsertAll(store, ticks, now) ==
    IF ticks = <<>> THEN store
    ELSE upsertAll(upsert(store, Head(ticks).symbol, Head(ticks).price, now),
                   Tail(ticks), now)

\* quotePublisher.publish for each tick of a list, on the pending batch.
RECURSIVE publishPendingAll(_, _, _)
publishPendingAll(pend, ticks, now) ==
    IF ticks = <<>> THEN pend
    ELSE publishPendingAll(
             publishPending(pend, Head(ticks).symbol, Head(ticks).price, now),
             Tail(ticks), now)

\* The ticks of a list with their timestamp.
Stamped(ticks, now) ==
    [i \in DOMAIN ticks |-> QuoteTick(ticks[i].symbol, ticks[i].price, now)]

\* The last tick of each symbol of a list, over m.
RECURSIVE lastOfEach(_, _)
lastOfEach(m, ticks) ==
    IF ticks = <<>> THEN m
    ELSE lastOfEach(MapSet(m, Head(ticks).symbol, Head(ticks)), Tail(ticks))

\* POST /dev/quotes/start, startRandomQuoteGenerator(opts)
GenStart(opts) ==
    LET r == startRandomQuoteGenerator(opts, timers, genTimer)
    IN  /\ timers' = r.timers
        /\ genTimer' = r.genTimer
        /\ last' = [op |-> "genStart", opts |-> opts, info |-> r.info,
                    replaced |-> genTimer # NoTimer]
        /\ UNCHANGED <<symbolToQuote, subscribers, pending, readyState, pubLog,
                       lastPublished>>
        /\ UNCHANGED <<gatewayVars, flushInterval, heartbeatInterval,
                      clientVars, loopVars>>

\* POST /dev/quotes/stop, stopRandomQuoteGenerator()
GenStop ==
    LET r == stopRandomQuoteGenerator(timers, genTimer)
    IN  /\ timers' = r.timers
        /\ genTimer' = r.genTimer
        /\ last' = [op |-> "genStop",
                    cleared |-> Cardinality(DOMAIN timers \ DOMAIN r.timers)]
        /\ UNCHANGED <<symbolToQuote, subscribers, pending, readyState, pubLog,
                       lastPublished>>
        /\ UNCHANGED <<gatewayVars, flushInterval, heartbeatInterval,
                      clientVars, loopVars>>

\* tick() takes the closure of timer id to g2 and publishes out at now.
TickPublishes(id, now, g2, out) ==
    /\ timers' = [timers EXCEPT ![id] = g2]
    /\ symbolToQuote' = upsertAll(symbolToQuote, out, now)
    /\ pending' = publishPendingAll(pending, out, now)
    /\ pubLog' = pubLog \o Stamped(out, now)
    /\ lastPublished' = lastOfEach(lastPublished, Stamped(out, now))
    /\ last' = [op |-> "genTick", id |-> id, opts |-> g2.opts, ms |-> g2.ms,
                published |-> out]

\* An active generator timer fires: tick().
GenTick(id, now) ==
    /\ id \in DOMAIN timers
    /\ timers[id].kind = "gen"
    /\ timers[id].firings < MaxFirings
    /\ Len(pubLog) + updates(timers[id].baseRate) <= MaxPubs
    /\ TickPublishes(id, now, tick(timers[id]),
                     Published(timers[id], tick(timers[id])))
    /\ UNCHANGED <<subscribers, readyState, gatewayVars, flushInterval,
                   heartbeatInterval, genTimer, clientVars, loopVars>>

\* quotePublisher.start()
PublisherStart ==
    /\ timers' = start(PublisherTimers).timers
    /\ flushInterval' = start(PublisherTimers).flushInterval
    /\ heartbeatInterval' = start(PublisherTimers).heartbeatInterval
    /\ last' = [op |-> "start",
                created |-> Cardinality(DOMAIN start(PublisherTimers).timers
                                        \ DOMAIN timers)]
    /\ UNCHANGED <<symbolToQuote, subscribers, pending, readyState, pubLog,
                   lastPublished>>
    /\ UNCHANGED <<gatewayVars, genTimer, clientVars, loopVars>>

\* quotePublisher.stop()
PublisherStop ==
    /\ timers' = stop(PublisherTimers).timers
    /\ flushInterval' = stop(PublisherTimers).flushInterval
    /\ heartbeatInterval' = stop(PublisherTimers).heartbeatInterval
    /\ last' = [op |-> "stop",
                cleared |-> Cardinality(DOMAIN timers
                                        \ DOMAIN stop(PublisherTimers).timers)]
    /\ UNCHANGED <<symbolToQuote, subscribers, pending, readyState, pubLog,
                   lastPublished>>
    /\ UNCHANGED <<gatewayVars, genTimer, clientVars, loopVars>>

\* The timers specification: the publisher's start and stop, the generator's
\* start, stop and tick, and the firings of the publisher's two timers.
TimerNext ==
    \/ PublisherStart
    \/ PublisherStop
    \/ \E opts \in GenOptions : GenStart(opts)
    \/ GenStop
    \/ \E id \in DOMAIN timers, now \in GenClock : GenTick(id, now)
    \/ \E throws \in SUBSET Conns : FlushFires(throws)
    \/ \E throws \in SUBSET Conns : PingAllFires(throws)

TimerSpec == Init /\ [][TimerNext]_vars

(***************************************************************************)
(* Reading the timers.                                                     *)
(***************************************************************************)
\* The active timers whose callback is of this kind.
TimersOf(kind) == {id \in DOMAIN timers : timers[id].kind = kind}

(***************************************************************************)
(* C17  At most one generator timer is active, and it is the one genTimer  *)
(* names; a start leaves exactly one, running the options of that start    *)
(* (it replaces a running generator); a stop leaves none, also when none   *)
(* was running.                                                            *)
(***************************************************************************)
C17_OneGenerator ==
    /\ Cardinality(TimersOf("gen")) <= 1
    /\ TimersOf("gen") = {genTimer} \ {NoTimer}
    /\ last.op = "genStart" =>
           /\ genTimer # NoTimer
           /\ timers[genTimer].opts = last.opts
           /\ timers[genTimer].firings = 0
    /\ last.op = "genStop" => TimersOf("gen") = {}

\* A start replaced a generator that was running: exactly one timer is
\* active afterwards.
C17_Witness ==
    /\ last.op = "genStart"
    /\ last.replaced
    /\ Cardinality(TimersOf("gen")) = 1

(***************************************************************************)
(* C18  Stop is complete and idempotent.  After the publisher's stop       *)
(* no flush or heartbeat timer is active and none fires; after the         *)
(* generator's stop no generator timer is active and none fires; no active *)
(* timer is ever without its handle; and a stop that follows a stop, or    *)
(* comes before any start, changes nothing.                                *)
(***************************************************************************)
C18_StopCompleteIdempotent ==
    [][/\ last'.op = "stop" =>
              /\ TimersOf("flush")' = {}
              /\ TimersOf("heartbeat")' = {}
              /\ flushInterval' = NoTimer
              /\ heartbeatInterval' = NoTimer
       /\ last'.op = "genStop" =>
              /\ TimersOf("gen")' = {}
              /\ genTimer' = NoTimer
       /\ DOMAIN timers' \subseteq {flushInterval', heartbeatInterval', genTimer'}
       /\ last.op = "stop" => last'.op \notin {"flush", "pingAll"}
       /\ last.op = "genStop" => last'.op # "genTick"
       /\ (last.op \in {"stop", "init"} /\ last'.op = "stop") =>
              /\ last'.cleared = 0
              /\ UNCHANGED <<symbolToQuote, subscribers, pending, readyState,
                             gatewayVars, timerVars>>
       /\ (last.op \in {"genStop", "init"} /\ last'.op = "genStop") =>
              /\ last'.cleared = 0
              /\ UNCHANGED <<symbolToQuote, subscribers, pending, readyState,
                             gatewayVars, timerVars>>]_vars

\* The generator was stopped when none was running, after an earlier run
\* had published.
C18_Witness ==
    /\ last.op = "genStop"
    /\ last.cleared = 0
    /\ symbolToQuote # EmptyMap

(***************************************************************************)
(* C19  Generator determinism: what a running generator has published      *)
(* after n firings is what a generator started with the same options when  *)
(* nothing ran before publishes in n firings, whatever ran before it.      *)
(***************************************************************************)
\* The closure, after n firings, of a generator started with opts in the
\* state after module load.
RECURSIVE FreshRun(_, _)
FreshRun(opts, n) ==
    IF n = 0
    THEN startRandomQuoteGenerator(opts, EmptyMap, NoTimer).timers[1]
    ELSE tick(FreshRun(opts, n - 1))

\* The (symbol, price) pairs of these runs.
FreshLogs ==
    [opts \in GenOptions |-> [n \in 0..MaxFirings |-> FreshRun(opts, n).log]]

C19_Deterministic ==
    \A id \in TimersOf("gen") :
        /\ timers[id].log = FreshLogs[timers[id].opts][timers[id].firings]
        /\ Len(timers[id].log) = timers[id].firings * updates(timers[id].baseRate)

\* A generator has fired and published while the store still holds, for
\* another of its symbols, the tick of an earlier run.
C19_Witness ==
    \E id \in TimersOf("gen") :
        /\ timers[id].firings > 0
        /\ \E s \in Range(timers[id].symbols) :
               /\ s \in DOMAIN lastPublished
               /\ \A i \in DOMAIN timers[id].log : timers[id].log[i].symbol # s

(***************************************************************************)
(* C20  The generator drives the configured rate: for ratePerSec r in      *)
(* 1..1000, the publish calls of one firing times the firings per second,  *)
(* 1000 / intervalMs, is r.                                                *)
(***************************************************************************)
C20_AggregateRate ==
    (last.op = "genTick" /\ last.opts.ratePerSec \in 1..1000) =>
        Len(last.published) * 1000 = last.opts.ratePerSec * last.ms

(***************************************************************************)
(* The dashboard (apps/frontend/src/components/QuotesDashboard.tsx): the   *)
(* client of the gateway.  One mounted component is modelled, with the     *)
(* page around it: its sockets, its setTimeout / setInterval timers, its   *)
(* requestAnimationFrame callbacks and React's queue of state updates.     *)
(* The browser runs every event handler and callback to completion, so     *)
(* each is one atomic action.  The state lastUpdate (a Date) and the       *)
(* initial HTTP snapshot (loadInitialData) are left out.                   *)
(***************************************************************************)
\* Client sockets one mounted component may create.
MaxSockets == 6
\* The sockets of the render specification.
MaxRenderSockets == 2

\* const maxReconnectAttempts = 5
maxReconnectAttempts == 5
\* 1000 * Math.pow(2, attempts): the base delay
BackoffBaseMs == 1000
\* Math.min(..., 30000): the cap
BackoffCapMs == 30000
\* Math.random() * 1000: the bound of the jitter
JitterMaxMs == 1000
\* frameCounter.current >= 10
CommitFrames == 10
\* (quotes[symbol]?.price || 150)
DemoBasePrice == 150

\* The symbols prop.
ClientSymbols == <<"AAPL", "MSFT">>

\* Values of Math.random() * 1000, in [0, 1000), rounded down to the ms.
Jitters == {0, 500, 999}

\* connectionError messages.
DemoModeError == "Demo mode - WebSocket not available"
MaxAttemptsError == "Max reconnection attempts reached"

\* Mutant of backoffMs: linear instead of exponential.
backoffMsLinear(attempts) ==
    Min(BackoffBaseMs * (attempts + 1), BackoffCapMs)

\* const backoffMs = Math.min(1000 * Math.pow(2, attempts), 30000)
backoffMs(attempts) == Min(BackoffBaseMs * Pow2(attempts), BackoffCapMs)

\* An id no pending timer has and no handle of the component holds (the
\* browser never hands out an id twice).
NewWindowTimerId(tm, ref) ==
    CHOOSE id \in 1..(Cardinality(DOMAIN tm) + 3) : id \notin DOMAIN tm \cup {timer, ref}

\* Mutant of reconnect: the attempts are not limited.
reconnectUnlimited(attempts, tm, ref, err, jitter) ==
    LET id == NewWindowTimerId(tm, ref)
    IN  [windowTimers |-> MapSet(tm, id, [kind |-> "reconnect", attempt |-> attempts,
                                          delay |-> backoffMs(attempts) + jitter]),
         reconnectTimeoutRef |-> id,
         connectionError |-> err]

\* reconnect(): gives up at maxReconnectAttempts, and otherwise sets the
\* timeout that connects after backoffMs + jitter.  The closure keeps, for
\* the record, the attempt the delay was computed for.
reconnect(attempts, tm, ref, err, jitter) ==
    IF attempts >= maxReconnectAttempts
    THEN [windowTimers |-> tm, reconnectTimeoutRef |-> ref,
          connectionError |-> MaxAttemptsError]
    ELSE LET id == NewWindowTimerId(tm, ref)
         IN  [windowTimers |-> MapSet(tm, id, [kind |-> "reconnect",
                                               attempt |-> attempts,
                                               delay |-> backoffMs(attempts) + jitter]),
              reconnectTimeoutRef |-> id,
              connectionError |-> err]

\* The strings of an array as JSON carries them.
jsStrings(symbols) == [i \in DOMAIN symbols |-> JSString(symbols[i])]

\* Mutant of onopen: the attempt counter is left as it is.
onopenKeepsAttempts(attempts, symbols) ==
    [isConnected |-> TRUE, connectionError |-> NoError,
     reconnectAttempts |-> attempts,
     sent |-> <<JSObject("subscribe", TRUE, jsStrings(symbols))>>]

\* ws.onopen: the state it sets and the messages it sends on ws.
\* JSON.stringify writes the symbols, strings, as they are.
onopen(attempts, symbols) ==
    [isConnected |-> TRUE, connectionError |-> NoError,
     reconnectAttempts |-> 0,
     sent |-> <<JSObject("subscribe", TRUE, jsStrings(symbols))>>]

\* Mutant of shouldReconnect: reconnects after every close.
shouldReconnectAlways(wasClean) == TRUE

\* if (!event.wasClean) reconnect()
shouldReconnect(wasClean) == ~wasClean

\* const data = JSON.parse(event.data) did not throw, and
\* data.type === "quotes" && data.items
isQuotes(raw) ==
    /\ raw.parses
    /\ raw.value # NULL
    /\ raw.value.type = "quotes"

\* items.forEach((tick) => { pendingUpdates.current[tick.symbol] = tick })
RECURSIVE forEachTick(_, _)
forEachTick(buffer, items) ==
    IF items = <<>> THEN buffer
    ELSE forEachTick(MapSet(buffer, Head(items).symbol, Head(items)), Tail(items))

\* Mutant of shouldCommit: every callback with updates pending commits.
shouldCommitWhenPending(counter, hasPending) == hasPending

\* if (frameCounter.current >= 10 && hasPendingUpdates.current), counter
\* being frameCounter.current after frameCounter.current++
shouldCommit(counter, hasPending) == counter >= CommitFrames /\ hasPending

\* Mutant of needsFrame: a callback is requested for every message.
needsFrameAlways(id) == TRUE

\* if (animationFrameId.current === null)
needsFrame(id) == id = NoTimer

\* requestAnimationFrame: an id no pending callback has and the ref does not
\* hold.
NewFrameId(callbacks, ref) ==
    CHOOSE id \in 1..(Cardinality(callbacks) + 2) : id \notin callbacks \cup {ref}

\* Mutant of applyPending: the ticks on display win over the buffered ones.
applyPendingKeepsShown(prev, prevPrevious, buffer) ==
    [quotes |-> [s \in DOMAIN prev \cup DOMAIN buffer |->
                    IF s \in DOMAIN prev THEN prev[s] ELSE buffer[s]],
     previousQuotes |-> prevPrevious]

\* The updater handed to setQuotes, and the one it hands to
\* setPreviousQuotes, run with the buffer pendingUpdates.current holds when
\* they run: Object.assign({ ...prev }, buffer), and prev[symbol] kept as
\* the previous quote of every buffered symbol that was on display.
applyPending(prev, prevPrevious, buffer) ==
    [quotes |-> [s \in DOMAIN prev \cup DOMAIN buffer |->
                    IF s \in DOMAIN buffer THEN buffer[s] ELSE prev[s]],
     previousQuotes |-> [s \in DOMAIN prevPrevious \cup (DOMAIN buffer \cap DOMAIN prev) |->
                            IF s \in DOMAIN buffer \cap DOMAIN prev
                            THEN prev[s] ELSE prevPrevious[s]]]

\* simulateUpdates: one tick per symbol, of price
\* max(50, min(500, (quotes[symbol]?.price || 150) + (Math.random() - 0.5) * 10)).
\* connectWebSocket keeps the startDemoMode of the first render, whose
\* quotes is {}, so the price is 150 plus the random term (here 0).
simulateUpdates(symbols, now) ==
    [i \in DOMAIN symbols |-> QuoteTick(symbols[i], DemoBasePrice, now)]

\* The state of the store, the publisher and its transports.
backendVars == <<symbolToQuote, subscribers, pending, readyState, pubLog, lastPublished>>

\* The frames the gateway sends to a client: hello, and quotes with one tick
\* per symbol of the batch the client asked for.
ClientFrames ==
    {Parsed(HelloMessage),
     Parsed(QuotesMessage(<<QuoteTick("AAPL", 100, 1)>>)),
     Parsed(QuotesMessage(<<QuoteTick("AAPL", 101, 1)>>)),
     Parsed(QuotesMessage(<<QuoteTick("MSFT", 100, 1), QuoteTick("AAPL", 100, 1)>>))}

\* connectWebSocket(): new WebSocket(wsUrl) and wsRef.current = ws; the
\* handlers it sets are the actions below.  The URL is well formed, so the
\* constructor does not throw.
ConnectWebSocket ==
    /\ socketsCreated < MaxSockets
    /\ socketsCreated' = socketsCreated + 1
    /\ sockets' = MapSet(sockets, socketsCreated + 1,
                         [readyState |-> "CONNECTING", opened |-> FALSE])
    /\ wsRef' = socketsCreated + 1

\* The timeout of the effect fires: connectWebSocket().
ConnectTimerFires ==
    /\ timer \in DOMAIN windowTimers
    /\ windowTimers' = MapDelete(windowTimers, timer)
    /\ ConnectWebSocket
    /\ last' = [op |-> "connect", ws |-> wsRef']
    /\ UNCHANGED <<quotes, previousQuotes, isConnected, connectionError,
                   pendingUpdates, frameCounter, animationFrameId,
                   hasPendingUpdates, reconnectTimeoutRef, reconnectAttempts,
                   frameCallbacks, updateQueue, unmounted, failedSinceOpen>>
    /\ UNCHANGED <<backendVars, gatewayVars, timerVars, loopVars>>

\* The timeout reconnect() set fires: connectWebSocket(), then
\* reconnectAttempts.current++.
ReconnectTimerFires(id) ==
    /\ id \in DOMAIN windowTimers
    /\ windowTimers[id].kind = "reconnect"
    /\ windowTimers' = MapDelete(windowTimers, id)
    /\ ConnectWebSocket
    /\ reconnectAttempts' = reconnectAttempts + 1
    /\ last' = [op |-> "reconnect", ws |-> wsRef', attempt |-> windowTimers[id].attempt]
    /\ UNCHANGED <<quotes, previousQuotes, isConnected, connectionError,
                   pendingUpdates, frameCounter, animationFrameId,
                   hasPendingUpdates, reconnectTimeoutRef, frameCallbacks,
                   updateQueue, unmounted, failedSinceOpen>>
    /\ UNCHANGED <<backendVars, gatewayVars, timerVars, loopVars>>

\* The connection of ws is established: ws.onopen.  The setters of an
\* unmounted component do nothing.
SocketOpens(ws) ==
    /\ ws \in DOMAIN sockets
    /\ sockets[ws].readyState = "CONNECTING"
    /\ sockets' = [sockets EXCEPT ![ws] = [readyState |-> "OPEN", opened |-> TRUE]]
    /\ isConnected' = IF unmounted THEN isConnected
                      ELSE onopen(reconnectAttempts, ClientSymbols).isConnected
    /\ connectionError' = IF unmounted THEN connectionError
                          ELSE onopen(reconnectAttempts, ClientSymbols).connectionError
    /\ reconnectAttempts' = onopen(reconnectAttempts, ClientSymbols).reconnectAttempts
    /\ failedSinceOpen' = 0
    /\ last' = [op |-> "open", ws |-> ws,
                sent |-> onopen(reconnectAttempts, ClientSymbols).sent]
    /\ UNCHANGED <<quotes, previousQuotes, pendingUpdates, frameCounter,
                   animationFrameId, hasPendingUpdates, wsRef, reconnectTimeoutRef,
                   socketsCreated, windowTimers, frameCallbacks, updateQueue,
                   unmounted>>
    /\ UNCHANGED <<backendVars, gatewayVars, timerVars, loopVars>>

\* The ticks handed to the buffer start the commit loop when none runs.
BufferTicks(items) ==
    /\ pendingUpdates' = forEachTick(pendingUpdates, items)
    /\ hasPendingUpdates' = TRUE
    /\ IF needsFrame(animationFrameId)
       THEN /\ animationFrameId' = NewFrameId(frameCallbacks, animationFrameId)
            /\ frameCallbacks' = frameCallbacks \cup {animationFrameId'}
       ELSE UNCHANGED <<animationFrameId, frameCallbacks>>

\* A frame arrives on the open socket ws: ws.onmessage.
SocketMessage(ws, raw) ==
    /\ ws \in DOMAIN sockets
    /\ sockets[ws].readyState = "OPEN"
    /\ IF isQuotes(raw)
       THEN BufferTicks(raw.value.items)
       ELSE UNCHANGED <<pendingUpdates, hasPendingUpdates, animationFrameId,
                        frameCallbacks>>
    /\ last' = [op |-> "clientMessage", ws |-> ws, raw |-> raw]
    /\ UNCHANGED <<quotes, previousQuotes, isConnected, connectionError,
                   frameCounter, wsRef, reconnectTimeoutRef, reconnectAttempts,
                   sockets, socketsCreated, windowTimers, updateQueue, unmounted,
                   failedSinceOpen>>
    /\ UNCHANGED <<backendVars, gatewayVars, timerVars, loopVars>>

\* clearTimeout(id)
clearTimeout(tm, id) == MapDelete(tm, id)

\* startDemoMode(): const demoInterval = setInterval(simulateUpdates, 500).
\* The cleanup it returns is dropped by both callers, so nothing holds the
\* handle of the interval.
startDemoMode(tm, ref) == MapSet(tm, NewWindowTimerId(tm, ref), [kind |-> "demo"])

\* ws.onerror: setConnectionError("Demo mode - ...") and startDemoMode().
onerror(tm, ref) == [windowTimers |-> startDemoMode(tm, ref),
                     connectionError |-> DemoModeError]

\* ws.onclose, the part after the frame callback was cancelled: reconnect()
\* unless the close was clean.
onclose(wasClean, attempts, tm, ref, err, jitter) ==
    IF shouldReconnect(wasClean)
    THEN reconnect(attempts, tm, ref, err, jitter)
    ELSE [windowTimers |-> tm, reconnectTimeoutRef |-> ref, connectionError |-> err]

\* What the handlers of a closing socket leave: onerror first when the
\* connection failed, then onclose.
Closing(failed, wasClean, jitter) ==
    IF failed
    THEN onclose(wasClean, reconnectAttempts,
                 onerror(windowTimers, reconnectTimeoutRef).windowTimers,
                 reconnectTimeoutRef,
                 onerror(windowTimers, reconnectTimeoutRef).connectionError, jitter)
    ELSE onclose(wasClean, reconnectAttempts, windowTimers, reconnectTimeoutRef,
                 connectionError, jitter)

\* The connection of ws is closed.  The browser sets readyState to CLOSED
\* and, in one task, fires error if the connection failed and then close:
\* ws.onerror and ws.onclose run back to back.  A connection that was never
\* established can only fail, and a failed connection is never closed
\* cleanly.
SocketCloses(ws, failed, wasClean, jitter) ==
    /\ ws \in DOMAIN sockets
    /\ wasClean => (~failed /\ sockets[ws].opened)
    /\ ~sockets[ws].opened => failed
    /\ sockets' = MapDelete(sockets, ws)
    /\ isConnected' = IF unmounted THEN isConnected ELSE FALSE
    /\ wsRef' = NoSocket
    /\ frameCallbacks' = frameCallbacks \ {animationFrameId}
    /\ animationFrameId' = NoTimer
    /\ windowTimers' = Closing(failed, wasClean, jitter).windowTimers
    /\ reconnectTimeoutRef' = Closing(failed, wasClean, jitter).reconnectTimeoutRef
    /\ connectionError' = IF unmounted THEN connectionError
                          ELSE Closing(failed, wasClean, jitter).connectionError
    /\ failedSinceOpen' = IF wasClean THEN failedSinceOpen ELSE failedSinceOpen + 1
    /\ last' = [op |-> "close", ws |-> ws, failed |-> failed, wasClean |-> wasClean,
                closedByClient |-> sockets[ws].readyState = "CLOSING",
                scheduled |-> DOMAIN windowTimers' \ DOMAIN windowTimers]
    /\ UNCHANGED <<quotes, previousQuotes, pendingUpdates, frameCounter,
                   hasPendingUpdates, reconnectAttempts, socketsCreated,
                   updateQueue, unmounted>>
    /\ UNCHANGED <<backendVars, gatewayVars, timerVars, loopVars>>

\* processBatchedUpdates commits: setQuotes(updater), then the buffer is
\* replaced by {} and the loop ends.  React either runs the updater at once
\* (its queue is empty and it computes the next state eagerly) or queues it
\* for the next render; which one is React's choice.
Commit(id, eager) ==
    /\ IF unmounted
       THEN UNCHANGED <<quotes, previousQuotes, updateQueue>>
       ELSE IF eager
            THEN /\ quotes' = applyPending(quotes, previousQuotes, pendingUpdates).quotes
                 /\ previousQuotes' =
                        applyPending(quotes, previousQuotes, pendingUpdates).previousQuotes
                 /\ UNCHANGED updateQueue
            ELSE /\ updateQueue' = updateQueue + 1
                 /\ UNCHANGED <<quotes, previousQuotes>>
    /\ pendingUpdates' = EmptyMap
    /\ hasPendingUpdates' = FALSE
    /\ frameCounter' = 0
    /\ animationFrameId' = NoTimer
    /\ frameCallbacks' = frameCallbacks \ {id}
    /\ last' = [op |-> "frame", committed |-> TRUE,
                eager |-> eager /\ ~unmounted, buffer |-> pendingUpdates]

\* processBatchedUpdates does not commit: the loop goes on while updates
\* are pending.
Skip(id) ==
    /\ frameCounter' = frameCounter + 1
    /\ IF hasPendingUpdates
       THEN /\ animationFrameId' = NewFrameId(frameCallbacks \ {id}, NoTimer)
            /\ frameCallbacks' = (frameCallbacks \ {id}) \cup {animationFrameId'}
       ELSE /\ animationFrameId' = NoTimer
            /\ frameCallbacks' = frameCallbacks \ {id}
    /\ last' = [op |-> "frame", committed |-> FALSE]
    /\ UNCHANGED <<quotes, previousQuotes, updateQueue, pendingUpdates,
                   hasPendingUpdates>>

\* The browser runs the requested callback id: processBatchedUpdates.  React
\* renders what an earlier callback queued before the next frame.
AnimationFrame(id) ==
    /\ id \in frameCallbacks
    /\ updateQueue = 0
    /\ IF shouldCommit(frameCounter + 1, hasPendingUpdates)
       THEN \E eager \in BOOLEAN : Commit(id, eager)
       ELSE Skip(id)
    /\ UNCHANGED <<isConnected, connectionError, wsRef, reconnectTimeoutRef,
                   reconnectAttempts, sockets, socketsCreated, windowTimers,
                   unmounted, failedSinceOpen>>
    /\ UNCHANGED <<backendVars, gatewayVars, timerVars, loopVars>>

\* React renders: the queued updaters run now, with the buffer
\* pendingUpdates.current holds now.
Render ==
    /\ updateQueue > 0
    /\ updateQueue' = 0
    /\ quotes' = applyPending(quotes, previousQuotes, pendingUpdates).quotes
    /\ previousQuotes' = applyPending(quotes, previousQuotes, pendingUpdates).previousQuotes
    /\ last' = [op |-> "render", applied |-> pendingUpdates]
    /\ UNCHANGED <<isConnected, connectionError, pendingUpdates, frameCounter,
                   animationFrameId, hasPendingUpdates, wsRef, reconnectTimeoutRef,
                   reconnectAttempts, sockets, socketsCreated, windowTimers,
                   frameCallbacks, unmounted, failedSinceOpen>>
    /\ UNCHANGED <<backendVars, gatewayVars, timerVars, loopVars>>

\* An interval of the demo mode fires: simulateUpdates.
DemoTick(id) ==
    /\ id \in DOMAIN windowTimers
    /\ windowTimers[id].kind = "demo"
    /\ BufferTicks(simulateUpdates(ClientSymbols, 1))
    /\ last' = [op |-> "demoTick", id |-> id]
    /\ UNCHANGED <<quotes, previousQuotes, isConnected, connectionError,
                   frameCounter, wsRef, reconnectTimeoutRef, reconnectAttempts,
                   sockets, socketsCreated, windowTimers, updateQueue, unmounted,
                   failedSinceOpen>>
    /\ UNCHANGED <<backendVars, gatewayVars, timerVars, loopVars>>

\* Mutant of close: the socket is left as it is.
closeNothing(socks, ws) == socks

\* ws.close(): the socket starts closing (or gives up connecting) and its
\* close event follows.
close(socks, ws) ==
    IF ws \in DOMAIN socks
    THEN [socks EXCEPT ![ws].readyState = "CLOSING"]
    ELSE socks

\* The cleanup of the effect (the component unmounts): clearTimeout(timer),
\* wsRef.current.close(), clearTimeout(reconnectTimeoutRef.current),
\* cancelAnimationFrame(animationFrameId.current).  No ref is reset.
Unmount ==
    /\ ~unmounted
    /\ unmounted' = TRUE
    /\ windowTimers' = clearTimeout(clearTimeout(windowTimers, timer), reconnectTimeoutRef)
    /\ sockets' = close(sockets, wsRef)
    /\ frameCallbacks' = frameCallbacks \ {animationFrameId}
    /\ updateQueue' = 0
    /\ last' = [op |-> "unmount"]
    /\ UNCHANGED <<quotes, previousQuotes, isConnected, connectionError,
                   pendingUpdates, frameCounter, animationFrameId,
                   hasPendingUpdates, wsRef, reconnectTimeoutRef, reconnectAttempts,
                   socketsCreated, failedSinceOpen>>
    /\ UNCHANGED <<backendVars, gatewayVars, timerVars, loopVars>>

\* The connection specification: one mounted dashboard and the life of its
\* sockets and reconnect timers, with no frame arriving on them.
ClientNext ==
    \/ ConnectTimerFires
    \/ \E id \in DOMAIN windowTimers : ReconnectTimerFires(id)
    \/ \E ws \in DOMAIN sockets : SocketOpens(ws)
    \/ \E ws \in DOMAIN sockets : \E failed, wasClean \in BOOLEAN :
           \E jitter \in Jitters : SocketCloses(ws, failed, wasClean, jitter)
    \/ Unmount

ClientSpec == Init /\ [][ClientNext]_vars

\* The render specification: the frames that arrive, the commit loop and
\* the demo mode, over the first MaxRenderSockets sockets of the dashboard
\* and one value of the jitter.
RenderNext ==
    \/ ConnectTimerFires
    \/ \E id \in DOMAIN windowTimers :
           socketsCreated < MaxRenderSockets /\ ReconnectTimerFires(id)
    \/ \E ws \in DOMAIN sockets : SocketOpens(ws)
    \/ \E ws \in DOMAIN sockets : \E raw \in ClientFrames : SocketMessage(ws, raw)
    \/ \E ws \in DOMAIN sockets : \E failed, wasClean \in BOOLEAN :
           SocketCloses(ws, failed, wasClean, 0)
    \/ \E id \in frameCallbacks : AnimationFrame(id)
    \/ Render
    \/ \E id \in DOMAIN windowTimers : DemoTick(id)
    \/ Unmount

RenderSpec == Init /\ [][RenderNext]_vars

(***************************************************************************)
(* C21  Reconnect delay bound: the reconnect for attempt k (0-indexed,     *)
(* counted since the last successful open) is scheduled after a delay d    *)
(* with min(base * 2^k, cap) <= d <= min(base * 2^k, cap) + jitterMax,     *)
(* base 1000 ms, cap 30000 ms, jitterMax 1000 ms: the base delays are 1 s,  *)
(* 2 s, 4 s, 8 s, 16 s for k = 0..4.                                       *)
(***************************************************************************)
\* The base delays of the attempts 0..4, in ms.
BaseDelays == <<1000, 2000, 4000, 8000, 16000>>

\* The pending timers of a kind.
WindowTimersOf(kind) == {id \in DOMAIN windowTimers : windowTimers[id].kind = kind}

C21_ReconnectDelayBound ==
    \A id \in WindowTimersOf("reconnect") :
        LET k == failedSinceOpen - 1
            d == windowTimers[id].delay
        IN  /\ k \in 0..(Len(BaseDelays) - 1)
            /\ windowTimers[id].attempt = k
            /\ BaseDelays[k + 1] <= BackoffCapMs
            /\ BaseDelays[k + 1] <= d
            /\ d <= BaseDelays[k + 1] + JitterMaxMs

\* The fifth reconnect in a row is pending, with the largest jitter.
C21_Witness ==
    \E id \in WindowTimersOf("reconnect") :
        /\ windowTimers[id].attempt = 4
        /\ windowTimers[id].delay = 16999

(***************************************************************************)
(* C22  Bounded retries: after maxReconnectAttempts (5) reconnect attempts *)
(* in a row without a successful open, that is once the socket of the      *)
(* fifth attempt has failed as well, no reconnect is scheduled, the        *)
(* dashboard shows "Max reconnection attempts reached", and it stays       *)
(* there: no later step connects again or changes the message.             *)
(***************************************************************************)
\* The first connection or the open one was lost and every reconnect
\* attempt allowed after it has failed.
Exhausted == failedSinceOpen > maxReconnectAttempts

C22_BoundedRetries ==
    [][Exhausted' =>
           /\ WindowTimersOf("reconnect")' = {}
           /\ DOMAIN sockets' = {}
           /\ ~unmounted' => connectionError' = MaxAttemptsError
           /\ Exhausted => /\ socketsCreated' = socketsCreated
                           /\ failedSinceOpen' = failedSinceOpen]_vars

\* The dashboard has given up while mounted: its first socket and the
\* sockets of the five reconnects have failed.
C22_Witness ==
    /\ Exhausted
    /\ ~unmounted
    /\ connectionError = MaxAttemptsError
    /\ socketsCreated = maxReconnectAttempts + 1

(***************************************************************************)
(* C23  Whenever a client connection reaches OPEN, the handler sends the   *)
(* subscribe message for the desired symbols on that connection (one       *)
(* message, which the gateway reads as a subscribe for exactly the         *)
(* symbols prop) and resets the attempt counter to zero, so the reconnect  *)
(* scheduled after a later unclean close of that connection is attempt 0.  *)
(***************************************************************************)
C23_OpenSubscribesAndResets ==
    [][/\ last'.op = "open" =>
              /\ sockets'[last'.ws].readyState = "OPEN"
              /\ Len(last'.sent) = 1
              /\ isSubscribe(Parsed(last'.sent[1]))
              /\ mapString(last'.sent[1].symbols) = ClientSymbols
              /\ reconnectAttempts' = 0
       /\ (last'.op = "close" /\ ~last'.wasClean /\ sockets[last'.ws].opened) =>
              /\ last'.scheduled \cap WindowTimersOf("reconnect")' # {}
              /\ \A id \in last'.scheduled \cap WindowTimersOf("reconnect")' :
                     /\ windowTimers'[id].attempt = 0
                     /\ windowTimers'[id].delay < BackoffBaseMs + JitterMaxMs]_vars

\* A socket made by a reconnect had opened and was lost, and the reconnect
\* after it is pending.
C23_Witness ==
    /\ last.op = "close"
    /\ ~last.wasClean
    /\ socketsCreated >= 3
    /\ failedSinceOpen = 1
    /\ \E id \in WindowTimersOf("reconnect") : windowTimers[id].attempt = 0

C25_TeardownLeavesNothing ==
    unmounted => (DOMAIN windowTimers = {} /\ frameCallbacks = {})

(***************************************************************************)
(* C26  Render batching: an incoming quotes message changes only the       *)
(* pending-update buffer (keyed by symbol, the last received tick wins)    *)
(* and never the visible state; the visible state changes only in a commit *)
(* step, which applies the whole pending buffer (after the commit,         *)
(* quotes[s] is the last received tick for every s that was pending) and   *)
(* leaves the buffer empty.                                                *)
(***************************************************************************)
\* The ticks of shown are those of buffer, for every symbol of buffer.
Shows(shown, buffer) ==
    \A s \in DOMAIN buffer : s \in DOMAIN shown /\ shown[s] = buffer[s]

\* The last tick of each symbol in an array of ticks.
LastReceived(items) ==
    [s \in {items[i].symbol : i \in DOMAIN items} |->
        items[CHOOSE i \in DOMAIN items :
                  /\ items[i].symbol = s
                  /\ \A j \in DOMAIN items : items[j].symbol = s => j <= i]]

C26_RenderBatching ==
    [][/\ last'.op = "clientMessage" =>
              /\ UNCHANGED <<quotes, previousQuotes>>
              /\ isQuotes(last'.raw) =>
                     /\ Shows(pendingUpdates', LastReceived(last'.raw.value.items))
                     /\ \A s \in DOMAIN pendingUpdates' :
                            s \notin DOMAIN LastReceived(last'.raw.value.items) =>
                                (s \in DOMAIN pendingUpdates
                                 /\ pendingUpdates'[s] = pendingUpdates[s])
       /\ quotes' # quotes => last'.op \in {"frame", "render"}
       /\ (last'.op = "frame" /\ last'.committed) =>
              /\ pendingUpdates' = EmptyMap
              /\ last'.eager => Shows(quotes', last'.buffer)
       /\ (last.op = "frame" /\ last.committed /\ last'.op = "render") =>
              Shows(quotes', last.buffer)]_vars

(***************************************************************************)
(* C27  Idle commit loop: after a commit no commit callback remains        *)
(* scheduled (no update can have arrived during the commit), a callback is *)
(* scheduled again only when a new tick arrives, a scheduled callback      *)
(* always has pending updates to commit, and at most one commit callback   *)
(* is scheduled at any time.                                               *)
(***************************************************************************)
C27_IdleCommitLoop ==
    [][/\ Cardinality(frameCallbacks') <= 1
       /\ frameCallbacks' # {} => (hasPendingUpdates' /\ pendingUpdates' # EmptyMap)
       /\ (last'.op = "frame" /\ last'.committed) =>
              (frameCallbacks' = {} /\ animationFrameId' = NoTimer)
       /\ (frameCallbacks = {} /\ frameCallbacks' # {}) =>
              \/ last'.op = "demoTick"
              \/ last'.op = "clientMessage" /\ isQuotes(last'.raw)]_vars

\* After a commit reached the display the loop was idle, and a new tick has
\* started it again.
C27_Witness ==
    /\ last.op = "clientMessage"
    /\ quotes # EmptyMap
    /\ frameCounter = 0
    /\ Cardinality(frameCallbacks) = 1

(***************************************************************************)
(* C28  Flush and heartbeat tolerate zero subscribers: fired while the     *)
(* registry is empty, each sends nothing, raises nothing and leaves the    *)
(* pending batch, the store and the registry unchanged; a flush fired with *)
(* an empty pending batch is a no-op as well.                              *)
(***************************************************************************)
C28_NoSubscribersNoOp ==
    [][/\ (last'.op = "flush" /\ (DOMAIN subscribers = {} \/ DOMAIN pending = {})) =>
              /\ \A ws \in Conns : last'.calls[ws] = <<>>
              /\ ~last'.uncaught
              /\ UNCHANGED <<pending, symbolToQuote, subscribers, readyState>>
       /\ (last'.op = "pingAll" /\ DOMAIN subscribers = {}) =>
              /\ last'.pinged = {}
              /\ last'.threw = {}
              /\ UNCHANGED <<pending, symbolToQuote, subscribers, readyState>>]_vars

\* The flush timer has fired with a tick pending and nobody registered: the
\* tick is still pending.
C28_Witness ==
    /\ last.op = "flush"
    /\ DOMAIN subscribers = {}
    /\ DOMAIN pending # {}
    /\ last.batch = pending


\* The events of one connection: its acceptance, a frame, a pong, its close,
\* its error, and the transport going down.
ConnectionEvents == {"connection", "message", "pong", "close", "error", "transport"}

\* A send on some socket threw in the step just taken.
SendFailed(calls) ==
    \E ws \in DOMAIN calls : \E i \in DOMAIN calls[ws] : calls[ws][i].threw

(***************************************************************************)
(* C29  Fault isolation per connection: an event of a connection (a        *)
(* well-formed or malformed frame, its close, its error, a send on it that *)
(* throws) leaves the store, the pending batch and the generator and the   *)
(* timers as they were, leaves every other socket's registration and       *)
(* interest set as they were, and sends nothing on any other socket; a     *)
(* send that throws inside flush or a ping that throws inside pingAll      *)
(* changes neither the store nor the registry.                             *)
(***************************************************************************)
C29_FaultIsolation ==
    [][/\ last'.op \in ConnectionEvents =>
              /\ UNCHANGED <<symbolToQuote, pending, timerVars>>
              /\ \A other \in Conns \ {last'.ws} :
                     /\ Interest(subscribers', other) = Interest(subscribers, other)
                     /\ last'.op \in {"connection", "message"} =>
                            last'.calls[other] = <<>>
       /\ (last'.op = "flush" /\ SendFailed(last'.calls)) =>
              /\ UNCHANGED <<symbolToQuote, subscribers, timerVars>>
              /\ pending' = EmptyMap
       /\ (last'.op = "pingAll" /\ last'.threw # {}) =>
              UNCHANGED <<symbolToQuote, subscribers, pending, timerVars>>
      ]_vars

\* A malformed frame was handled, or a connection's error, while another
\* socket was subscribed to something and a batch was pending.
C29_Witness ==
    /\ \/ last.op = "message" /\ last.malformed
       \/ last.op = "error"
    /\ DOMAIN pending # {}
    /\ \E other \in DOMAIN subscribers \ {last.ws} : subscribers[other] # {}


\* The ticks a batch holds.
BatchTicks(batch) == {batch[symbol] : symbol \in DOMAIN batch}

\* The ticks of an items list.
ItemTicks(items) == {items[j] : j \in DOMAIN items}

(***************************************************************************)
(* C30  The batch swap of flush is atomic with respect to publish.  A      *)
(* publish puts its tick into the pending batch and removes from it        *)
(* nothing but the entry of the same symbol; a flush that takes the batch  *)
(* takes all of it, sends nothing that is not in it and leaves a fresh,    *)
(* empty pending batch, so that no tick is in both; a flush that returns   *)
(* early sends nothing and keeps the batch; no other step touches the      *)
(* batch; a flush that directly follows a flush that took the batch sends  *)
(* nothing; and at every moment the last tick published for a symbol since *)
(* the flush timer last fired is the pending entry of that symbol.         *)
(***************************************************************************)
C30_AtomicBatchSwap ==
    [][/\ last'.op = "publish" =>
              /\ pending'[last'.symbol] =
                     QuoteTick(last'.symbol, last'.price, last'.ts)
              /\ \A symbol \in DOMAIN pending \ {last'.symbol} :
                     /\ symbol \in DOMAIN pending'
                     /\ pending'[symbol] = pending[symbol]
       /\ (last'.op = "flush" /\ ~last'.early) =>
              /\ last'.batch = pending
              /\ pending' = EmptyMap
              /\ \A ws \in Conns : \A i \in DOMAIN last'.calls[ws] :
                     ItemTicks(last'.calls[ws][i].msg.items) \subseteq
                         BatchTicks(pending)
       /\ (last'.op = "flush" /\ last'.early) =>
              /\ pending' = pending
              /\ \A ws \in Conns : last'.calls[ws] = <<>>
       /\ last'.op \notin {"publish", "flush"} => pending' = pending
       /\ (last.op = "flush" /\ ~last.early /\ last'.op = "flush") =>
              \A ws \in Conns : last'.calls[ws] = <<>>
       /\ \A symbol \in ItemSymbols(pubLog') :
              /\ symbol \in DOMAIN pending'
              /\ pending'[symbol] = LastInLog(pubLog', symbol)
      ]_vars

\* A flush took a batch of both symbols and delivered from it, leaving the
\* fresh batch empty.
C30_Witness ==
    /\ Flushed
    /\ DOMAIN last.batch = {"AAPL", "MSFT"}
    /\ pending = EmptyMap
    /\ \E ws \in Conns :
           /\ Len(last.calls[ws]) = 1
           /\ ~last.calls[ws][1].threw
           /\ ItemTicks(Items(ws, 1)) = BatchTicks(last.batch)


(***************************************************************************)
(* The event loop around flush() and pingAll(), one iteration of their     *)
(* loops at a time.  Node runs one callback at a time: a timer's callback, *)
(* the handler of a socket event and a route's handler each start when no  *)
(* callback is running, and run until they return.                         *)
(***************************************************************************)
\* No callback is running.
Idle == [kind |-> "none"]

\* The events of a socket whose handlers remove its registration.
LoopEvents == {"close", "error"}

\* Mutant of yields: the pass hands control to the event loop at each send.
yieldsAtSend(kind) == kind # "none"

\* flush() and pingAll() are plain methods, without await and without a
\* callback between two iterations; ws.send and ws.ping return or throw at
\* once.  Whether a pass of this kind hands control to the event loop
\* before its last iteration is over.
yields(kind) == FALSE

\* A callback may start.
MayRun == running = Idle \/ yields(running.kind)

\* The network layer reports the end or the failure of a connection: the
\* event waits for its turn.  This happens at any time, also while a pass
\* is sending.  The events followed are those of registered sockets, one
\* at a time per socket.
Raise(ws, ev) ==
    /\ ws \in DOMAIN subscribers
    /\ \A e \in LoopEvents : <<ws, e>> \notin raised
    /\ raised' = raised \cup {<<ws, ev>>}
    /\ last' = [op |-> "raise", ws |-> ws, ev |-> ev]
    /\ UNCHANGED <<backendVars, gatewayVars, timerVars, clientVars, running>>

\* The handler of a waiting event runs:
\* ws.on("close"): quotePublisher.removeSubscriber(ws)
\* ws.on("error"): try { ws.close() } catch {}; quotePublisher.removeSubscriber(ws)
Dispatch(ws, ev) ==
    /\ MayRun
    /\ <<ws, ev>> \in raised
    /\ raised' = raised \ {<<ws, ev>>}
    /\ readyState' = [readyState EXCEPT ![ws] = "CLOSING"]
    /\ subscribers' = removeSubscriber(subscribers, ws)
    /\ last' = [op |-> "dispatch", ws |-> ws, ev |-> ev]
    /\ UNCHANGED <<symbolToQuote, pending, pubLog, lastPublished>>
    /\ UNCHANGED <<gatewayVars, timerVars, clientVars, running>>

\* The flush timer fires: flush() up to its loop.
FlushBegins ==
    /\ running = Idle
    /\ pubLog' = <<>>
    /\ pending' = flushPending(pending, subscribers)
    /\ running' = IF flushReturnsEarly(pending, subscribers) THEN Idle
                  ELSE [kind |-> "flush", began |-> DOMAIN subscribers,
                        visited |-> {}, batch |-> pending, threw |-> {},
                        acc |-> NoCalls]
    /\ last' = [op |-> "flushBegins",
                early |-> flushReturnsEarly(pending, subscribers)]
    /\ UNCHANGED <<symbolToQuote, subscribers, readyState, lastPublished>>
    /\ UNCHANGED <<gatewayVars, timerVars, clientVars, raised>>

\* One iteration of flush's loop, for the entry of ws.  A Map is walked
\* live: the entries it holds now that were not visited yet are to come.
FlushVisits(ws, throws) ==
    /\ running.kind = "flush"
    /\ ~running.acc.uncaught
    /\ ws \in DOMAIN subscribers \ running.visited
    /\ running' = [running EXCEPT
                      !.visited = @ \cup {ws},
                      !.threw = @ \cup throws,
                      !.acc = flushOne(ws, subscribers, readyState,
                                       running.batch, throws, @)]
    /\ last' = [op |-> "visit", ws |-> ws]
    /\ UNCHANGED <<backendVars, gatewayVars, timerVars, clientVars, raised>>

\* The heartbeat timer fires: pingAll() up to its loop.
PingBegins ==
    /\ running = Idle
    /\ running' = [kind |-> "pingAll", began |-> DOMAIN subscribers,
                   visited |-> {}, pinged |-> {}]
    /\ last' = [op |-> "pingBegins"]
    /\ UNCHANGED <<backendVars, gatewayVars, timerVars, clientVars, raised>>

\* One iteration of pingAll's loop, for the key ws:
\* try { if (ws.readyState === WebSocket.OPEN) ws.ping() } catch {}
PingVisits(ws) ==
    /\ running.kind = "pingAll"
    /\ ws \in DOMAIN subscribers \ running.visited
    /\ running' = [running EXCEPT
                      !.visited = @ \cup {ws},
                      !.pinged = @ \cup pingAll(MapSet(EmptyMap, ws, {}), readyState)]
    /\ last' = [op |-> "visit", ws |-> ws]
    /\ UNCHANGED <<backendVars, gatewayVars, timerVars, clientVars, raised>>

\* The loop of the pass is over and the callback returns.
PassEnds ==
    /\ running # Idle
    /\ \/ DOMAIN subscribers \ running.visited = {}
       \/ running.kind = "flush" /\ running.acc.uncaught
    /\ running' = Idle
    /\ last' = [op |-> "passEnds", pass |-> running]
    /\ UNCHANGED <<backendVars, gatewayVars, timerVars, clientVars, raised>>

\* The symbols arrays of the calls in the event loop specification.
LoopArrays == {<<"AAPL">>, <<"AAPL", "MSFT">>}

LoopNext ==
    \/ \E ws \in Conns, symbols \in LoopArrays :
           MayRun /\ AddSubscriber(ws, symbols)
    \/ \E ws \in Conns, symbols \in LoopArrays :
           MayRun /\ UpdateSubscription(ws, symbols)
    \/ \E ws \in Conns : MayRun /\ RemoveSubscriber(ws)
    \/ \E symbol \in Symbols : MayRun /\ Publish(symbol, 100, 1)
    \/ \E ws \in Conns, ev \in LoopEvents : Raise(ws, ev)
    \/ \E ws \in Conns, ev \in LoopEvents : Dispatch(ws, ev)
    \/ FlushBegins
    \/ \E ws \in Conns : \E throws \in SUBSET {ws} : FlushVisits(ws, throws)
    \/ PingBegins
    \/ \E ws \in Conns : PingVisits(ws)
    \/ PassEnds

\* The event loop specification: the calls on the publisher, the socket
\* events and the two passes over the registry, iteration by iteration.
LoopSpec == Init /\ [][LoopNext]_vars

(***************************************************************************)
(* C31  Mutual exclusion of the mutations with the passes: while a pass of *)
(* flush or of pingAll over the registry is in progress, no step changes   *)
(* the registry, the pending batch or the state of a socket (a close or an *)
(* error that occurs during the pass waits until the pass is over); a pass *)
(* visits exactly the entries the registry held when it began, and what it *)
(* sends is what flush and pingAll send when taken as one step.            *)
(***************************************************************************)
C31_MutualExclusion ==
    [][/\ running # Idle =>
              /\ subscribers' = subscribers
              /\ pending' = pending
              /\ readyState' = readyState
       /\ last'.op = "passEnds" =>
              /\ last'.pass.kind = "flush" =>
                     /\ last'.pass.visited = last'.pass.began
                     /\ last'.pass.acc =
                            flushLoop(last'.pass.began, subscribers, readyState,
                                      last'.pass.batch, last'.pass.threw, NoCalls)
              /\ last'.pass.kind = "pingAll" =>
                     /\ last'.pass.visited = last'.pass.began
                     /\ last'.pass.pinged = pingAll(subscribers, readyState)
      ]_vars

\* A close or an error of a registered socket that the flush has not come
\* to yet occurred while the flush was sending.
C31_Witness ==
    /\ last.op = "raise"
    /\ running.kind = "flush"
    /\ running.visited # {}
    /\ last.ws \in DOMAIN subscribers \ running.visited


(***************************************************************************)
(* C32  Heartbeat and flush are independent.  A firing of the heartbeat    *)
(* timer leaves the store, the pending batch, the registry and the timers  *)
(* as they were, calls ping on every registered socket whose transport is  *)
(* OPEN and on no other, also when ping throws on some of them, and leaves *)
(* the flush timer scheduled; a firing of the flush timer leaves the       *)
(* timers as they were, the heartbeat timer among them, and pings nothing. *)
(***************************************************************************)
C32_HeartbeatIndependent ==
    [][/\ last'.op = "pingAll" =>
              /\ UNCHANGED <<symbolToQuote, pending, subscribers, timerVars>>
              /\ last'.pinged =
                     {ws \in DOMAIN subscribers : readyState[ws] = "OPEN"}
              /\ last'.threw \subseteq last'.pinged
              /\ Scheduled("flush")'
       /\ last'.op = "flush" =>
              /\ UNCHANGED timerVars
              /\ Scheduled("heartbeat")'
      ]_vars

\* ping threw on one socket and was still called on another, with a batch
\* pending, and the flush timer is still there.
C32_Witness ==
    /\ last.op = "pingAll"
    /\ last.threw # {}
    /\ last.pinged \ last.threw # {}
    /\ DOMAIN pending # {}
    /\ Scheduled("flush")


(***************************************************************************)
(* C33  Commit frequency bound: frameCounter counts the callbacks of the   *)
(* commit loop since the last commit.  A callback that commits is at least *)
(* the tenth since then and sets the counter to zero; a callback that does *)
(* not commit adds one to it; no other step (a quotes message, a close, an *)
(* error, an open, a reconnect, a render) changes it.  Hence at least ten  *)
(* callbacks run between two consecutive commits.                          *)
(***************************************************************************)
C33_CommitFrequency ==
    [][/\ (last'.op = "frame" /\ last'.committed) =>
              /\ frameCounter + 1 >= 10
              /\ frameCounter' = 0
       /\ (last'.op = "frame" /\ ~last'.committed) =>
              frameCounter' = frameCounter + 1
       /\ last'.op # "frame" => frameCounter' = frameCounter
      ]_vars

\* A commit on the second connection, with ticks of an earlier commit on
\* display.
C33_Witness ==
    /\ last.op = "frame"
    /\ last.committed
    /\ DOMAIN quotes # {}
    /\ socketsCreated >= 2
    /\ DOMAIN last.buffer # {}


(***************************************************************************)
(* The generator late in a run.  With the symbols AAPL and MSFT the        *)
(* sequence of updates does not depend on the rate (one PRNG, seeded with  *)
(* 42, drives it); replaying the code gives, after 223292 updates, t =     *)
(* 898445036 (modulo 2^32) and the running prices AAPL 1.08, MSFT 94.28,   *)
(* and the next update takes AAPL below the floor.                         *)
(***************************************************************************)
\* t modulo 2^32 after 223292 updates.
LateSeed == 898445036

\* The running prices after 223292 updates, in hundredths.
LatePrices == MapSet(MapSet(EmptyMap, "AAPL", 108), "MSFT", 9428)

\* The closure of the generator's timer at that point: the one
\* startRandomQuoteGenerator({symbols: ["AAPL", "MSFT"], ratePerSec: 1})
\* made, with rng's t and the price map as the updates left them.
LateGenerator ==
    [kind |-> "gen", opts |-> Options(TRUE, <<"AAPL", "MSFT">>, 1),
     symbols |-> <<"AAPL", "MSFT">>, baseRate |-> baseRate(1),
     ms |-> intervalMs(baseRate(1)), t |-> mulberry32(LateSeed),
     priceMap |-> LatePrices, log |-> <<>>, firings |-> 0]

\* The state with that generator running and everything it published
\* flushed long ago (the history variables start here).
LateInit ==
    /\ symbolToQuote = MapSet(MapSet(EmptyMap, "AAPL", QuoteTick("AAPL", 108, 1)),
                              "MSFT", QuoteTick("MSFT", 9428, 1))
    /\ subscribers = EmptyMap
    /\ pending = EmptyMap
    /\ readyState = [ws \in Conns |-> "OPEN"]
    /\ pubLog = <<>>
    /\ lastPublished = symbolToQuote
    /\ last = [op |-> "init"]
    /\ accepted = {}
    /\ ended = [ws \in Conns |-> {}]
    /\ subscribedEver = {}
    /\ timers = setInterval(EmptyMap, LateGenerator)
    /\ flushInterval = NoTimer
    /\ heartbeatInterval = NoTimer
    /\ genTimer = NewTimerId(EmptyMap)
    /\ ClientInit
    /\ LoopInit

\* The timers specification, from the late state of the generator.
LateSpec == LateInit /\ [][TimerNext]_vars

\* The running price of the symbol of out[i] before the i-th update of a
\* firing that published out, priceMap being the map before the firing:
\* priceMap.get(s) || 100
PrevPrice(priceMap, out, i) ==
    LET earlier == {j \in 1..(i - 1) : out[j].symbol = out[i].symbol}
    IN  IF earlier # {}
        THEN out[CHOOSE j \in earlier : \A k \in earlier : k <= j].price
        ELSE lastPrice(priceMap, out[i].symbol)

(***************************************************************************)
(* C34  Every price the generator publishes is at least 1 (100 hundredths):*)
(* each update takes the running price of its symbol to the greater of the *)
(* floor and the price moved by a delta between -1 and 1; after a firing   *)
(* the running price map holds, for each symbol published, the last price  *)
(* published for it, and the other entries are as they were.               *)
(***************************************************************************)
C34_PriceFloor ==
    [][last'.op = "genTick" =>
           /\ \A i \in DOMAIN last'.published :
                  /\ last'.published[i].price >= 100
                  /\ \E delta \in -100..100 :
                         last'.published[i].price =
                             Max(100, PrevPrice(timers[last'.id].priceMap,
                                                last'.published, i) + delta)
           /\ \A s \in ItemSymbols(last'.published) :
                  timers'[last'.id].priceMap[s] =
                      LastInLog(last'.published, s).price
           /\ \A s \in DOMAIN timers[last'.id].priceMap
                           \ ItemSymbols(last'.published) :
                  timers'[last'.id].priceMap[s] = timers[last'.id].priceMap[s]
      ]_vars

\* The update that takes AAPL from 1.08 below the floor: 1 is published and
\* is the running price.
C34_Witness ==
    /\ last.op = "genTick"
    /\ last.opts = LateGenerator.opts
    /\ last.published = <<[symbol |-> "AAPL", price |-> 100]>>
    /\ timers[last.id].priceMap["AAPL"] = 100
    /\ symbolToQuote["AAPL"].price = 100


(***************************************************************************)
(* The delivery specification: symbols of the store specification, the     *)
(* key "__proto__" among them, are subscribed to, published and flushed.   *)
(***************************************************************************)
\* The symbols arrays of the subscriptions in the delivery specification.
DeliverArrays == {<<"AAPL">>, <<"MSFT", "__proto__">>}

DeliverNext ==
    \/ \E ws \in Conns, symbols \in DeliverArrays : AddSubscriber(ws, symbols)
    \/ \E symbol \in SnapSymbols, in \in PublishInputs :
           Publish(symbol, in[1], in[2])
    \/ \E throws \in SUBSET Conns : Flush(throws)

DeliverSpec == Init /\ [][DeliverNext]_vars

\* The ticks a flush has sent, on any socket.
Delivered ==
    UNION {UNION {ItemTicks(Items(ws, i)) : i \in DOMAIN last.calls[ws]} :
               ws \in Conns}

(***************************************************************************)
(* C35  Store/pending consistency: every entry of the pending batch is the *)
(* store's tick of its symbol, and every tick a flush delivers is what     *)
(* snapshot returns for its symbol in the state of the flush (flush leaves *)
(* the store as it is).                                                    *)
(***************************************************************************)
C35_StorePendingConsistent ==
    /\ \A symbol \in DOMAIN pending :
           /\ symbol \in DOMAIN symbolToQuote
           /\ pending[symbol] = symbolToQuote[symbol]
    /\ last.op = "flush" =>
           \A sent \in Delivered :
               /\ sent.symbol \in DOMAIN snapshot(symbolToQuote, <<sent.symbol>>)
               /\ snapshot(symbolToQuote, <<sent.symbol>>)[sent.symbol] = sent

\* The part of C35 that holds: the pending entries and the delivered ticks
\* are the store's ticks.
DeliveredIsStored ==
    /\ \A symbol \in DOMAIN pending :
           /\ symbol \in DOMAIN symbolToQuote
           /\ pending[symbol] = symbolToQuote[symbol]
    /\ last.op = "flush" =>
           \A sent \in Delivered : MapGet(symbolToQuote, sent.symbol) = sent


FairRenderSpec ==
    /\ RenderSpec
    /\ WF_vars(\E id \in frameCallbacks : AnimationFrame(id))
    /\ WF_vars(Render)
    /\ WF_vars(\E id \in DOMAIN windowTimers : DemoTick(id))

\* The ticks the gateway's frames carry.
ClientTicks ==
    {QuoteTick("AAPL", 100, 1), QuoteTick("AAPL", 101, 1), QuoteTick("MSFT", 100, 1)}

\* The tick is the buffer's entry of its symbol.
Buffered(t) == MapGet(pendingUpdates, t.symbol) = t

\* The tick is on display.
Shown(t) == MapGet(quotes, t.symbol) = t

\* The buffer holds another tick of the symbol.
Superseded(t) == t.symbol \in DOMAIN pendingUpdates /\ pendingUpdates[t.symbol] # t

\* A reconnect is scheduled that the bound on the sockets keeps from running:
\* the code goes on from here, so nothing is concluded from such a state.
ReconnectCutShort ==
    /\ socketsCreated >= MaxRenderSockets
    /\ \E id \in DOMAIN windowTimers : windowTimers[id].kind = "reconnect"

(***************************************************************************)
(* C37  Client commit liveness: while the component stays mounted, a tick  *)
(* that is in the pending buffer is eventually on display, or another tick *)
(* of its symbol takes its place in the buffer, whatever messages, closes, *)
(* errors and reconnects happen in between.                                *)
(***************************************************************************)
C37_CommitLiveness ==
    \A t \in ClientTicks :
        (Buffered(t) /\ ~unmounted)
            ~> (Shown(t) \/ Superseded(t) \/ unmounted \/ ReconnectCutShort)


(***************************************************************************)
(* C38  Single tracked connection: at most one socket of the dashboard has *)
(* not closed yet; it is the most recently created one and the one wsRef   *)
(* designates, and wsRef designates nothing else (the close event that     *)
(* clears wsRef is the close of the socket wsRef designates); the cleanup  *)
(* of the effect leaves every socket that has not closed yet closing.      *)
(***************************************************************************)
C38_SingleTrackedConnection ==
    /\ Cardinality(DOMAIN sockets) <= 1
    /\ \A ws \in DOMAIN sockets : ws = socketsCreated /\ wsRef = ws
    /\ wsRef # NoSocket => wsRef \in DOMAIN sockets
    /\ last.op = "unmount" =>
           \A ws \in DOMAIN sockets : sockets[ws].readyState = "CLOSING"

\* The cleanup ran while the second socket, created after the first one
\* closed, was open: it is the one wsRef designates and it is closing.
C38_Witness ==
    /\ last.op = "unmount"
    /\ socketsCreated >= 2
    /\ wsRef = socketsCreated
    /\ wsRef \in DOMAIN sockets
    /\ sockets[wsRef].opened
    /\ sockets[wsRef].readyState = "CLOSING"

(***************************************************************************)
(* C39  Every tick a generator publishes has a symbol of the generator's   *)
(* list of symbols, whatever options it was started with, an empty array   *)
(* of symbols included.                                                    *)
(***************************************************************************)
C39_SymbolsFromList ==
    [][last'.op = "genTick" =>
           \A i \in DOMAIN last'.published :
               last'.published[i].symbol \in Range(timers[last'.id].symbols)]_vars

\* The part that holds: a generator with a non-empty list publishes symbols
\* of the list only.
SymbolsFromNonEmptyList ==
    [][(last'.op = "genTick" /\ timers[last'.id].symbols # <<>>) =>
           \A i \in DOMAIN last'.published :
               last'.published[i].symbol \in Range(timers[last'.id].symbols)]_vars

(***************************************************************************)
(* C40  Publisher start is idempotent: after any sequence of start and     *)
(* stop calls at most one flush timer and at most one heartbeat timer are  *)
(* active, the ones flushInterval and heartbeatInterval name; both are     *)
(* active after a start, neither after a stop, and nothing but start and   *)
(* stop changes them.                                                      *)
(***************************************************************************)
C40_StartIdempotent ==
    [][/\ Cardinality(TimersOf("flush")') <= 1
       /\ Cardinality(TimersOf("heartbeat")') <= 1
       /\ TimersOf("flush")' = {flushInterval'} \ {NoTimer}
       /\ TimersOf("heartbeat")' = {heartbeatInterval'} \ {NoTimer}
       /\ last'.op = "start" =>
              /\ Cardinality(TimersOf("flush")') = 1
              /\ Cardinality(TimersOf("heartbeat")') = 1
       /\ last'.op = "stop" =>
              TimersOf("flush")' = {} /\ TimersOf("heartbeat")' = {}
       /\ last'.op \notin {"start", "stop"} =>
              /\ flushInterval' = flushInterval
              /\ heartbeatInterval' = heartbeatInterval]_vars

\* start() is called while both timers are active, a generator runs, and
\* creates no timer.
C40_Witness ==
    /\ last.op = "start" /\ last.created = 0
    /\ Cardinality(TimersOf("flush")) = 1
    /\ Cardinality(TimersOf("heartbeat")) = 1
    /\ TimersOf("gen") # {}

=============================================================================
